---- MODULE Spec2Model ----
(***************************************************************************)
(* AmapAddressParser (src/amap_address_parser.py) and AddressCompleter     *)
(* (src/address_completer.py) as a state machine.                          *)
(*                                                                         *)
(* Encoding of Python values.  A str is a sequence of atoms; an atom is a  *)
(* TLA+ string standing for one character (han characters are written in   *)
(* pinyin, "han_" omitted) or for one fixed literal of the source.  A leaf *)
(* value that is not a str is a one-element sequence holding a tag atom    *)
(* that starts with "#".  A JSON container is a record with a tag t.       *)
(***************************************************************************)
EXTENDS Integers, Sequences, FiniteSets, TLC

VARIABLES
    now,                \* time.time(), in milliseconds
    today,              \* datetime.now() date, as a day number
    last_request_time,  \* self.last_request_time
    request_count,      \* self.request_count
    _quota_counter,     \* self._quota_counter: path -> count (0 = no entry)
    _quota_date,        \* self._quota_date (NoDate = attribute not set)
    _district_cache,    \* self._district_cache: name -> district_info
    district_cache,     \* self.district_cache: adcode -> district
    _tips_cache,        \* self._tips_cache: cache key -> response
    _poi_cache,         \* self._poi_cache: cache key -> pois
    _current_city,      \* self._current_city (Unset = attribute not set)
    wire,               \* observation of the outbound traffic of the instance
    call,               \* observation of the last _make_request call
    parse,              \* the parse in progress: position, locals, lookups so far
    ret,                \* what the last operation called on the instance returned
    pure,               \* the last call of a helper that reads no attribute of
                        \* the instance: its name, its arguments, what it returned
    asked,              \* observation of the queries of the cached kinds: the
                        \* last one, and what each returned when first made
    threads,            \* the callers that share the instance: for each its
                        \* position in _make_request and its locals
    passed,             \* observation: path -> calls that left _check_quota today
    provider            \* the environment held fixed: the text parsed, what every
                        \* request is answered, and what the first parse returned

vars == <<now, today, last_request_time, request_count, _quota_counter,
          _quota_date, _district_cache, district_cache, _tips_cache, _poi_cache,
          _current_city, wire, call, parse, ret, pure, asked, threads, passed,
          provider>>

\* what the operations on the instance itself leave alone
aside == <<pure, asked, threads, passed, provider>>

\* what a helper called on its own leaves alone
instance == <<now, today, last_request_time, request_count, _quota_counter,
              _quota_date, _district_cache, district_cache, _tips_cache, _poi_cache,
              _current_city, wire, call, parse, ret, asked, threads, passed,
              provider>>

----------------------------------------------------------------------------
(* Bounds of the model *)

StartTime == 1000       \* the clock value at construction (stands for the epoch offset)
TickMs == 50            \* granularity of the passing of time
MaxDay == 2             \* days observed
ShallowCalls == 1       \* calls per path and day that draw every kind of reply
OverQuota == 1          \* calls made to a path beyond its exhaustion
MaxSends == 3           \* outbound requests per day when lookups are called one by one
MaxElapsed == 200       \* milliseconds of idle time that are followed

(* Program constants *)

SearchQuota == 100      \* quota = 100
BasicQuota == 5000      \* quota = 5000
MinInterval == 100      \* 0.1 s between two requests

NoDate == 0
Unset == <<"#unset">>   \* hasattr(self, '_current_city') is False

----------------------------------------------------------------------------
(* Python values *)

NoneVal == <<"#None">>
EmptyList == <<"#[]">>
SomeList == <<"#[x]">>
Tags == {"#None", "#[]", "#[x]"}

IsStr(v) == \A i \in 1..Len(v) : v[i] \notin Tags
Truthy(v) == v # <<>> /\ v # NoneVal /\ v # EmptyList

\* dict.get(k, dflt) on a dict modelled as a function over its keys
Get(d, k, dflt) == IF k \in DOMAIN d THEN d[k] ELSE dflt

\* str(x) inside an f-string
Fmt(v) == IF v = NoneVal THEN <<"None">> ELSE IF v = EmptyList THEN <<"[]">> ELSE v

\* str.startswith on sequences of atoms
StartsWith(s, prefix) ==
    Len(prefix) <= Len(s) /\ SubSeq(s, 1, Len(prefix)) = prefix

\* a local of the source, assigned once with v and read by F
Let(v, F(_)) == F(v)

----------------------------------------------------------------------------
(* Errors *)

AmapError(code, message) == [exc |-> "AmapError", code |-> code, message |-> message]
OtherError(name, text) == [exc |-> name, code |-> NoneVal, message |-> text]

\* super().__init__(f"错误码 {code}: {message}")
ErrStr(e) ==
    IF e.exc = "AmapError"
    THEN <<"error code ">> \o Fmt(e.code) \o <<": ">> \o Fmt(e.message)
    ELSE e.message

ERROR_MESSAGES ==
    [c \in {<<"10001">>, <<"10002">>, <<"10003">>, <<"10004">>, <<"10005">>,
            <<"10009">>, <<"10010">>, <<"20000">>, <<"20001">>, <<"20011">>,
            <<"20012">>, <<"30000">>} |-> <<"table message of ">> \o c]

QuotaMessage == <<"daily quota limit exceeded">>
EmptyMessage == <<"service response is empty">>
FormatMessage == <<"response data format error">>
FailedPrefix == <<"request failed: ">>

Returned(v) == [ok |-> TRUE, val |-> v]
Raised(e) == [ok |-> FALSE, exc |-> e]

----------------------------------------------------------------------------
(* Text: character classes, str methods and the regular-expression engine *)

Digits == {"0", "1", "2", "3", "4", "5", "6", "7", "8", "9"}
Letters == {"A", "B", "a", "b"}
\* \s: the space, and the characters written NL, TAB, CR, IDSP (u3000), NBSP (xa0)
Whitespace == {" ", "NL", "TAB", "CR", "IDSP", "NBSP"}
\* the ASCII and the full-width comma and full stop, the ideographic comma
Punctuation == {",", ".", "FWCOMMA", "FWSTOP", "IDCOMMA", "-", "|"}

\* [\u4e00-\u9fa5]: every other character atom is a han character
IsHan(c) == c \notin Digits \cup Letters \cup Whitespace \cup Punctuation \cup Tags

Max(S) == CHOOSE x \in S : \A y \in S : y <= x
Min(S) == CHOOSE x \in S : \A y \in S : x <= y

\* sub occurs in s at index i
At(s, i, sub) ==
    i >= 1 /\ i + Len(sub) - 1 <= Len(s) /\ SubSeq(s, i, i + Len(sub) - 1) = sub

\* sub in s
Contains(s, sub) == \E i \in 1..(Len(s) + 1) : At(s, i, sub)

\* s[from:] (from is a 1-based index)
Tail_(s, from) == SubSeq(s, from, Len(s))

RECURSIVE ReplaceFrom(_, _, _, _)
ReplaceFrom(s, i, old, new) ==
    IF i > Len(s) THEN <<>>
    ELSE IF At(s, i, old) THEN new \o ReplaceFrom(s, i + Len(old), old, new)
    ELSE <<s[i]>> \o ReplaceFrom(s, i + 1, old, new)

\* s.replace(old, new), old not empty
Replace(s, old, new) == ReplaceFrom(s, 1, old, new)

\* the number of characters of s from index i on that belong to class
RECURSIVE RunLen(_, _, _)
RunLen(s, i, class) ==
    IF i <= Len(s) /\ s[i] \in class THEN 1 + RunLen(s, i + 1, class) ELSE 0

RECURSIVE HanRun(_, _)
HanRun(s, i) == IF i <= Len(s) /\ IsHan(s[i]) THEN 1 + HanRun(s, i + 1) ELSE 0

\* A pattern over a text s is given by ml: ml[i] is the length of the match
\* the pattern has at index i, 0 when it has none there (no pattern of the
\* source matches the empty string).

\* re.search: the index of the leftmost match, 0 when there is none
Search(ml) ==
    IF \E i \in DOMAIN ml : ml[i] > 0 THEN Min({i \in DOMAIN ml : ml[i] > 0}) ELSE 0

\* re.sub with the replacement rp[i] for the match at i
RECURSIVE SubFrom(_, _, _, _)
SubFrom(s, i, ml, rp) ==
    IF i > Len(s) THEN <<>>
    ELSE IF ml[i] > 0 THEN rp[i] \o SubFrom(s, i + ml[i], ml, rp)
    ELSE <<s[i]>> \o SubFrom(s, i + 1, ml, rp)

Sub(s, ml, rp) == SubFrom(s, 1, ml, rp)

\* re.finditer: the indexes of the matches, left to right, not overlapping
RECURSIVE IterFrom(_, _, _)
IterFrom(s, i, ml) ==
    IF i > Len(s) THEN <<>>
    ELSE IF ml[i] > 0 THEN <<i>> \o IterFrom(s, i + ml[i], ml)
    ELSE IterFrom(s, i + 1, ml)

\* s.strip()
RECURSIVE Strip(_)
Strip(s) ==
    IF s = <<>> THEN s
    ELSE IF s[1] \in Whitespace THEN Strip(Tail(s))
    ELSE IF s[Len(s)] \in Whitespace THEN Strip(SubSeq(s, 1, Len(s) - 1))
    ELSE s

\* s.split(): the parts between runs of whitespace
RECURSIVE SplitFrom(_, _)
SplitFrom(s, i) ==
    IF i > Len(s) THEN <<>>
    ELSE IF s[i] \in Whitespace THEN SplitFrom(s, i + 1)
    ELSE LET n == RunLen(s, i, {s[k] : k \in i..Len(s)} \ Whitespace)
         IN  <<SubSeq(s, i, i + n - 1)>> \o SplitFrom(s, i + n)

Split(s) == SplitFrom(s, 1)

\* ' '.join(parts)
RECURSIVE Join(_)
Join(parts) ==
    IF parts = <<>> THEN <<>>
    ELSE IF Len(parts) = 1 THEN parts[1]
    ELSE parts[1] \o <<" ">> \o Join(Tail(parts))

\* the parts in their order of first appearance
RECURSIVE Dedup(_, _)
Dedup(parts, seen) ==
    IF parts = <<>> THEN <<>>
    ELSE IF parts[1] \in seen THEN Dedup(Tail(parts), seen)
    ELSE <<parts[1]>> \o Dedup(Tail(parts), seen \cup {parts[1]})

\* \s+ replaced by one space
CollapseSpaces(s) ==
    Sub(s, [i \in 1..Len(s) |-> RunLen(s, i, Whitespace)],
           [i \in 1..Len(s) |-> <<" ">>])

----------------------------------------------------------------------------
(* TextCleaner: the text _clean_address_string returns *)

AdminSuffix == {"sheng3", "shi4", "qu1", "xian4"}
Municipalities ==
    << <<"bei3", "jing1">>, <<"shang4", "hai3">>, <<"tian1", "jin1">>,
       <<"chong2", "qing4">> >>

\* ends of region+(?:市)? at i: the region's first character, its last one
\* repeated, an optional 市; 0 when it does not match
RegionEnd(s, i, region) ==
    IF i <= Len(s) /\ s[i] = region[1] /\ RunLen(s, i + 1, {region[2]}) > 0
    THEN LET e == i + 1 + RunLen(s, i + 1, {region[2]})
         IN  <<e, IF e <= Len(s) /\ s[e] = "shi4" THEN e + 1 ELSE e>>
    ELSE <<0, 0>>

\* f'{region}+(?:市)?{region}+(?:市)?': the optional 市 are taken when the
\* rest still matches
RegionTwice(s, i, region) ==
    Let(RegionEnd(s, i, region), LAMBDA first :
        IF first[1] = 0 THEN 0
        ELSE Let(RegionEnd(s, first[2], region), LAMBDA withShi :
             IF withShi[1] # 0 THEN withShi[2] - i
             ELSE Let(RegionEnd(s, first[1], region), LAMBDA without :
                  IF without[1] # 0 THEN without[2] - i ELSE 0)))

CollapseRegion(s, region) ==
    Sub(s, [i \in 1..Len(s) |-> RegionTwice(s, i, region)],
           [i \in 1..Len(s) |-> region \o <<"shi4">>])

\* ([省市区县])\1+ replaced by \1
CollapseAdmin(s) ==
    Sub(s, [i \in 1..Len(s) |->
                IF s[i] \in AdminSuffix /\ RunLen(s, i, {s[i]}) >= 2
                THEN RunLen(s, i, {s[i]}) ELSE 0],
           [i \in 1..Len(s) |-> <<s[i]>>])

RoadSuffixes == << <<"jie1", "dao4">>, <<"lu4">>, <<"jie1">>, <<"dao4">> >>

\* the number of copies of group that follow one another from index i on
RECURSIVE Copies(_, _, _)
Copies(s, i, group) ==
    IF At(s, i, group) THEN 1 + Copies(s, i + Len(group), group) ELSE 0

\* ([\u4e00-\u9fa5]+(?:街道|路|街|道))\1+ at i: the length of the group the
\* backtracking settles on (the longest run of han characters first, the
\* alternatives in their order), 0 when there is no match
RoadGroup(s, i) ==
    LET h == HanRun(s, i)
        ok(n, a) == /\ At(s, i + n, RoadSuffixes[a])
                    /\ n + Len(RoadSuffixes[a]) <= h
                    /\ Copies(s, i, SubSeq(s, i, i + n + Len(RoadSuffixes[a]) - 1)) >= 2
        ns == {n \in 1..h : \E a \in 1..4 : ok(n, a)}
    IN  IF ns = {} THEN 0
        ELSE LET n == Max(ns)
                 a == Min({b \in 1..4 : ok(n, b)})
             IN  n + Len(RoadSuffixes[a])

CollapseRoad(s) ==
    Let([i \in 1..Len(s) |-> RoadGroup(s, i)], LAMBDA g :
        Sub(s, [i \in 1..Len(s) |->
                    IF g[i] = 0 THEN 0
                    ELSE g[i] * Copies(s, i, SubSeq(s, i, i + g[i] - 1))],
               [i \in 1..Len(s) |-> SubSeq(s, i, i + g[i] - 1)]))

\* ([省市区县])\s+(?=[\u4e00-\u9fa5]) replaced by \1
TightenAdmin(s) ==
    Sub(s, [i \in 1..Len(s) |->
                LET k == RunLen(s, i + 1, Whitespace)
                IN  IF s[i] \in AdminSuffix /\ k > 0 /\ i + 1 + k <= Len(s)
                       /\ IsHan(s[i + 1 + k])
                    THEN 1 + k ELSE 0],
           [i \in 1..Len(s) |-> <<s[i]>>])

\* the value of address before the county step (lines 251-271)
Normalized(address) ==
    LET a == Sub(address,
                 [i \in 1..Len(address) |->
                    RunLen(address, i, {"CR", "NL", "TAB", "IDSP", "NBSP"})],
                 [i \in 1..Len(address) |-> <<" ">>])
        b1 == CollapseRegion(a, Municipalities[1])
        b2 == CollapseRegion(b1, Municipalities[2])
        b3 == CollapseRegion(b2, Municipalities[3])
        b4 == CollapseRegion(b3, Municipalities[4])
        c == CollapseAdmin(b4)
        d == CollapseRoad(c)
        e == Strip(CollapseSpaces(d))
    IN  TightenAdmin(e)

\* ' '.join(cleaned_parts) of the normalized address (lines 292-301)
JoinedParts(normalized) == Join(Dedup(Split(normalized), {}))

\* the text _clean_address_string returns
CleanText(address) == JoinedParts(Normalized(address))

\* the two county patterns: [临|蒲|永|洪|清]县 and [\u4e00-\u9fa5]{1,3}[县]
CountyLen(s, i, pattern) ==
    IF pattern = 1
    THEN IF s[i] \in {"lin2", "|", "pu2", "yong3", "hong2", "qing1"}
            /\ At(s, i + 1, <<"xian4">>)
         THEN 2 ELSE 0
    ELSE LET ns == {n \in 1..3 : HanRun(s, i) >= n /\ At(s, i + n, <<"xian4">>)}
         IN  IF ns = {} THEN 0 ELSE Max(ns) + 1

\* re.finditer(pattern, address): the matches as <<start, county>>
CountyMatches(address, pattern) ==
    LET ml == [i \in 1..Len(address) |-> CountyLen(address, i, pattern)]
        starts == IterFrom(address, 1, ml)
    IN  [k \in 1..Len(starts) |->
            <<starts[k], SubSeq(address, starts[k], starts[k] + ml[starts[k]] - 1)>>]

\* not any(region in address[:match.start()] for region in ['省', '市'])
NeedsLookup(address, start) ==
    LET before == SubSeq(address, 1, start - 1)
    IN  ~Contains(before, <<"sheng3">>) /\ ~Contains(before, <<"shi4">>)

----------------------------------------------------------------------------
(* ContactExtractor *)

\* 1[3-9]\d{9}
PhoneLen(s, i) ==
    IF /\ i + 10 <= Len(s)
       /\ s[i] = "1"
       /\ s[i + 1] \in Digits \ {"0", "1", "2"}
       /\ \A k \in (i + 2)..(i + 10) : s[k] \in Digits
    THEN 11 ELSE 0

Honorifics == {<<"xian1", "sheng1">>, <<"nv3", "shi4b">>, <<"xiao3", "jie3">>}

\* (?=\s|$|[，,。.]|1[3-9]\d{9}) at index j
NameAhead(s, j) ==
    \/ j > Len(s)
    \/ j <= Len(s) /\ s[j] \in Whitespace \cup {"FWCOMMA", ",", "FWSTOP", "."}
    \/ j <= Len(s) /\ PhoneLen(s, j) > 0

\* the name pattern at i: two or three han characters and an optional
\* honorific, or one han character and an honorific; the first attempt, in the
\* order of the backtracking, that the lookahead accepts
NameLen(s, i) ==
    LET h == HanRun(s, i)
        hon(j) == \E t \in Honorifics : At(s, j, t)
        attempts == << <<3, TRUE>>, <<3, FALSE>>, <<2, TRUE>>, <<2, FALSE>>, <<1, TRUE>> >>
        len(k) == attempts[k][1] + (IF attempts[k][2] THEN 2 ELSE 0)
        ok(k) == /\ h >= attempts[k][1]
                 /\ attempts[k][2] => hon(i + attempts[k][1])
                 /\ NameAhead(s, i + len(k))
        oks == {k \in 1..5 : ok(k)}
    IN  IF oks = {} THEN 0 ELSE len(Min(oks))

invalid_keywords ==
    {<<"bei3", "jing1">>, <<"shang4", "hai3">>, <<"guang3", "zhou1">>, <<"shen1", "zhen4b">>,
     <<"sheng3">>, <<"shi4">>, <<"qu1">>, <<"xian4">>, <<"zhen4">>,
     <<"jie1", "dao4">>, <<"lu4">>, <<"jie1">>, <<"dao4">>, <<"xiang4">>,
     <<"xiao3", "qu1">>, <<"gong1", "yu4">>, <<"jia1", "yuan2">>, <<"hua1", "yuan2">>,
     <<"guang3", "chang3">>, <<"da4", "sha4">>, <<"da4", "jie1">>, <<"hao4", "yuan4">>}

common_surnames ==
    {"wang2", "li3", "zhang1", "liu2", "chen2", "yang2", "huang2", "zhao4", "wu2",
     "zhou1b", "xu2", "sun1", "ma3", "zhu1", "hu2", "guo1", "he2", "gao1", "lin2b",
     "zheng4", "yin3", "qian2", "liang2"}

\* mutant: the last phone number of the address is taken
PhoneOf_last(address) ==
    Let({i \in 1..Len(address) : PhoneLen(address, i) > 0}, LAMBDA found :
        IF found = {} THEN <<>> ELSE SubSeq(address, Max(found), Max(found) + 10))

\* contact_info['phone']: the first phone number of the address, '' without one
PhoneOf(address) ==
    Let(Search([i \in 1..Len(address) |-> PhoneLen(address, i)]), LAMBDA at :
        IF at = 0 THEN <<>> ELSE SubSeq(address, at, at + 10))

\* contact_info['name'], looked for in the address without its phone number
NameOf(rest) ==
    Let([i \in 1..Len(rest) |-> NameLen(rest, i)], LAMBDA nl :
    Let(Search(nl), LAMBDA nat :
    Let(IF nat = 0 THEN <<>> ELSE Strip(SubSeq(rest, nat, nat + nl[nat] - 1)),
        LAMBDA potential_name :
            IF /\ nat # 0
               /\ \A k \in invalid_keywords : ~Contains(potential_name, k)
               /\ potential_name # <<>> /\ potential_name[1] \in common_surnames
            THEN potential_name ELSE <<>>)))

\* returns <<name, phone>>
_extract_contact_info(address) ==
    Let(PhoneOf(address), LAMBDA phone :
        <<NameOf(IF phone = <<>> THEN address ELSE Replace(address, phone, <<>>)),
          phone>>)

----------------------------------------------------------------------------
(* The street of a formatted address *)

\* [\u4e00-\u9fa5]{2,}[class] not followed by a character of unless
StreetLen(s, i, class, unless) ==
    LET h == HanRun(s, i)
        ns == {n \in 2..(h - 1) :
                 /\ s[i + n] \in class
                 /\ ~(i + n + 1 <= Len(s) /\ s[i + n + 1] \in unless)}
    IN  IF ns = {} THEN 0 ELSE Max(ns) + 1

street_patterns ==
    << <<{"jie1", "dao4"}, {}>>, <<{"lu4"}, {"kou3"}>>, <<{"jie1"}, {"dao4"}>>,
       <<{"da4", "dao4"}, {}>>, <<{"guang3", "chang3"}, {}>>,
       <<{"kai1", "fa1", "qu1"}, {}>>, <<{"gong1b", "ye4", "yuan2"}, {}>>,
       <<{"ke1", "ji4", "yuan2"}, {}>> >>

RECURSIVE RemoveAll(_, _)
RemoveAll(s, regions) ==
    IF regions = <<>> THEN s
    ELSE RemoveAll(IF Truthy(regions[1]) THEN Replace(s, regions[1], <<>>) ELSE s,
                   Tail(regions))

\* raises TypeError when a region to remove is truthy and not a str
_extract_possible_street(formatted_address, regions_to_remove) ==
    IF \E k \in 1..Len(regions_to_remove) :
            Truthy(regions_to_remove[k]) /\ ~IsStr(regions_to_remove[k])
    THEN Raised(OtherError("TypeError", <<"replace() argument 1 must be str">>))
    ELSE Let(RemoveAll(formatted_address, regions_to_remove),
             LAMBDA remaining_address :
         Let([k \in 1..Len(street_patterns) |->
                Search([i \in 1..Len(remaining_address) |->
                          StreetLen(remaining_address, i,
                                    street_patterns[k][1], street_patterns[k][2])])],
             LAMBDA found :
         IF \A k \in DOMAIN found : found[k] = 0 THEN Returned(<<>>)
         ELSE Let(Min({k \in DOMAIN found : found[k] # 0}), LAMBDA k :
                  Returned(SubSeq(remaining_address, found[k],
                      found[k] + StreetLen(remaining_address, found[k],
                                           street_patterns[k][1],
                                           street_patterns[k][2]) - 1)))))

----------------------------------------------------------------------------
(* SpecialPlaceDetector and BuildingDecomposer *)

\* (pattern, should_keep_district): each pattern is [\u4e00-\u9fa5]+ and a keyword
special_keywords ==
    << <<<<"da4", "xue2">>, FALSE>>, <<<<"xue2", "yuan4">>, FALSE>>,
       <<<<"zhong1", "xue2">>, TRUE>>, <<<<"yi1", "zhong1">>, TRUE>>,
       <<<<"er4", "zhong1">>, TRUE>>, <<<<"san1", "zhong1">>, TRUE>>,
       <<<<"xiao3", "xue2">>, TRUE>>, <<<<"yi1b", "yuan4">>, TRUE>>,
       <<<<"zheng4b", "fu3">>, TRUE>>, <<<<"yin2", "hang2">>, FALSE>>,
       <<<<"guang3", "chang3">>, FALSE>> >>

\* re.search(pattern, address) finds a match
SpecialFound(address, k) ==
    \E i \in 2..Len(address) :
        IsHan(address[i - 1]) /\ At(address, i, special_keywords[k][1])

\* the text handed to _clean_address_string (lines 577-586)
BuildingRemainder(address, components) ==
    IF \E key \in {"province", "city"} :
            Truthy(components[key]) /\ ~IsStr(components[key])
    THEN Raised(OtherError("TypeError", <<"replace() argument 1 must be str">>))
    ELSE Returned(RemoveAll(address, <<components.province, components.city,
                                      components.name, components.phone>>))

\* \d+单元
UnitLen(s, i) ==
    LET d == RunLen(s, i, Digits)
    IN  IF d > 0 /\ At(s, i + d, <<"dan1", "yuan2b">>) THEN d + 2 ELSE 0

\* (?=室|$) at index j
RoomAhead(s, j) == j > Len(s) \/ s[j] = "shi4c" \/ (j = Len(s) /\ s[j] = "NL")

\* \d{2,4}(?=室|$) at i
RoomDigits(s, i) ==
    LET ns == {n \in 2..4 : RunLen(s, i, Digits) >= n /\ RoomAhead(s, i + n)}
    IN  IF ns = {} THEN 0 ELSE Max(ns)

\* the three room patterns of _extract_building_info
RoomLen(s, i, k) ==
    CASE k = 1 -> IF i > 1 /\ s[i - 1] \in Digits THEN 0 ELSE RoomDigits(s, i)
      [] k = 2 -> IF s[i] \in Letters /\ RoomDigits(s, i + 1) > 0
                  THEN 1 + RoomDigits(s, i + 1) ELSE 0
      [] k = 3 -> IF i > 1 /\ s[i - 1] = "-" THEN RoomDigits(s, i) ELSE 0

\* re.sub(r'室\s*$', '', s)
DropRoomSuffix(s) ==
    LET ml == [i \in 1..Len(s) |->
                 IF s[i] = "shi4c" /\ i + RunLen(s, i + 1, Whitespace) = Len(s)
                 THEN Len(s) - i + 1 ELSE 0]
    IN  Sub(s, ml, [i \in 1..Len(s) |-> <<>>])

\* mutant: the district stays in the name of every special place
SpecialPlace_keeps(address, components, should_keep_district) ==
    Returned(RemoveAll(address, <<components.province, components.city>>))

\* lines 609-619: the special place with province and city taken out, and the
\* district too unless the keyword keeps it
SpecialPlace(address, components, should_keep_district) ==
    Let(RemoveAll(address, <<components.province, components.city>>), LAMBDA place :
        IF ~should_keep_district /\ Truthy(components.district)
        THEN IF IsStr(components.district)
             THEN Returned(Replace(place, components.district, <<>>))
             ELSE Raised(OtherError("TypeError", <<"replace() argument 1 must be str">>))
        ELSE Returned(place))

\* building_info['unit']: the first match of the unit pattern, '' without one
UnitOf(cleaned) ==
    Let(Search([i \in 1..Len(cleaned) |-> UnitLen(cleaned, i)]), LAMBDA uat :
        IF uat = 0 THEN <<>>
        ELSE SubSeq(cleaned, uat, uat + UnitLen(cleaned, uat) - 1))

\* building_info['room']: the match of the first room pattern that has one
RoomOf(r1) ==
    Let([k \in 1..3 |-> Search([i \in 1..Len(r1) |-> RoomLen(r1, i, k)])],
        LAMBDA rat :
        IF \A k \in 1..3 : rat[k] = 0 THEN <<>>
        ELSE Let(Min({k \in 1..3 : rat[k] # 0}), LAMBDA k :
                 SubSeq(r1, rat[k], rat[k] + RoomLen(r1, rat[k], k) - 1)))

\* lines 591-650, with remaining_address as _clean_address_string returned it
BuildingOf(address, components, cleaned) ==
    Let({k \in 1..Len(special_keywords) : SpecialFound(address, k)}, LAMBDA hits :
        IF hits # {}
        THEN Let(SpecialPlace(address, components, special_keywords[Min(hits)][2]),
                 LAMBDA special_place :
                 IF special_place.ok
                 THEN Returned([building |-> Strip(special_place.val),
                                unit |-> <<>>, room |-> <<>>])
                 ELSE special_place)
        ELSE Let(UnitOf(cleaned), LAMBDA unit :
             Let(IF unit = <<>> THEN cleaned ELSE Replace(cleaned, unit, <<>>),
                 LAMBDA r1 :
             Let(RoomOf(r1), LAMBDA room :
                 Returned([building |->
                              Strip(CollapseSpaces(
                                  IF room = <<>> THEN r1
                                  ELSE DropRoomSuffix(Replace(r1, room, <<>>)))),
                           unit |-> unit, room |-> room])))))

----------------------------------------------------------------------------
(* Request paths, one atom per path segment *)

PlaceTextV3 == <<"v3", "place", "text">>
PlaceTextV5 == <<"v5", "place", "text">>
DistrictPath == <<"v3", "config", "district">>
WeatherPath == <<"v3", "weather", "weatherInfo">>
IpPath == <<"v3", "ip">>
TipsPath == <<"v3", "assistant", "inputtips">>
ConvertPath == <<"v3", "assistant", "coordinate", "convert">>
WalkingPath == <<"v5", "direction", "walking">>
GeoPath == <<"v3", "geocode", "geo">>
RegeoPath == <<"v3", "geocode", "regeo">>

Paths == {PlaceTextV3, PlaceTextV5, DistrictPath, WeatherPath, IpPath,
          TipsPath, ConvertPath, WalkingPath}

EmptyCounter == [p \in Paths |-> 0]

----------------------------------------------------------------------------
(* The state of the instance and of its environment as one record *)

World ==
    [now |-> now, today |-> today, last_request_time |-> last_request_time,
     request_count |-> request_count, quota_counter |-> _quota_counter,
     quota_date |-> _quota_date, name_cache |-> _district_cache,
     adcode_cache |-> district_cache, tips_cache |-> _tips_cache,
     poi_cache |-> _poi_cache, current_city |-> _current_city,
     wire |-> wire, call |-> call]

SetWorld(w) ==
    /\ now' = w.now
    /\ today' = w.today
    /\ last_request_time' = w.last_request_time
    /\ request_count' = w.request_count
    /\ _quota_counter' = w.quota_counter
    /\ _quota_date' = w.quota_date
    /\ _district_cache' = w.name_cache
    /\ district_cache' = w.adcode_cache
    /\ _tips_cache' = w.tips_cache
    /\ _poi_cache' = w.poi_cache
    /\ _current_city' = w.current_city
    /\ wire' = w.wire
    /\ call' = w.call

\* conn.request("GET", ...): an outbound request starts at w.now
Send(w) ==
    [w EXCEPT !.wire = [sent_today |-> @.sent_today + 1,
                        last_send |-> w.now,
                        gap |-> IF @.last_send < 0 THEN -1 ELSE w.now - @.last_send]]

----------------------------------------------------------------------------
(* What the provider and the transport can answer *)

Dict(d) == [t |-> "dict", truthy |-> DOMAIN d # {}, d |-> d]
NonDict(truthy) == [t |-> "other", truthy |-> truthy, d |-> <<>>]
JList(items) == [t |-> "list", truthy |-> items # <<>>, items |-> items]
NoneC == [t |-> "none", truthy |-> FALSE]

\* dict.get(k) where the value is a container
GetC(d, k) == IF k \in DOMAIN d THEN d[k] ELSE NoneC

Reply(kind, json) == [kind |-> kind, json |-> json, oversleep |-> 0]

IoError == Reply("io_error", NonDict(FALSE))
NotJson == Reply("not_json", NonDict(FALSE))
PlainOk == Reply("json", Dict([status |-> <<"1">>, info |-> <<"OK">>, infocode |-> <<"10000">>]))

StatusReplies ==
    { Reply("json", Dict([status |-> <<"0">>, info |-> i, infocode |-> c])) :
        i \in {<<"PROVIDER_TEXT">>}, c \in {<<"10001">>, <<"10003">>, <<"99999">>} }
    \cup { Reply("json", Dict([status |-> <<"0">>])) }

Ok(d) == Reply("json", Dict(d @@ PlainOk.json.d))

Live == Dict([weather |-> <<"qing">>, temperature |-> <<"2", "0">>,
              winddirection |-> <<"dong">>, windpower |-> <<"4">>,
              humidity |-> <<"5", "0">>, reporttime |-> <<"t">>])
Cast == Dict([date |-> <<"d">>, week |-> <<"1">>, dayweather |-> <<"yin">>,
              nightweather |-> <<"qing">>, daytemp |-> <<"2", "1">>])

WeatherReplies ==
    {IoError,
     Reply("json", Dict([status |-> <<"0">>, info |-> <<"PROVIDER_TEXT">>,
                         infocode |-> <<"10001">>])),
     PlainOk,
     Ok([lives |-> JList(<<Live>>)]),
     Ok([forecasts |-> JList(<<Dict([casts |-> JList(<<Cast>>)])>>)]),
     Ok([lives |-> JList(<<Live>>),
         forecasts |-> JList(<<Dict([casts |-> JList(<<Cast>>)])>>)]),
     Ok([lives |-> JList(<<NonDict(TRUE)>>)])}

\* texts
LinXian == <<"lin2", "xian4">>
ShanxiSheng == <<"shan1", "xi1", "sheng3">>
LvliangShi == <<"lv3", "liang2", "shi4">>
ZhongshanLu == <<"zhong1", "shan1", "lu4">>
Adcode == <<"141124">>
Location == <<"110.99,37.96">>

AdminFull == [province |-> ShanxiSheng, adcode |-> Adcode]

DistrictFull ==
    Ok([districts |-> JList(<<Dict(AdminFull @@ [cityname |-> LvliangShi,
                                                 name |-> LinXian])>>)])
GeoFull ==
    Ok([geocodes |-> JList(<<Dict(AdminFull @@
            [city |-> LvliangShi, district |-> LinXian,
             formatted_address |->
                ShanxiSheng \o LvliangShi \o LinXian \o ZhongshanLu \o <<"3", "hao4">>])>>)])
RegeoFull ==
    Ok([regeocode |-> Dict([addressComponent |-> Dict(AdminFull @@
            [city |-> LvliangShi, district |-> LinXian,
             township |-> <<"lin2", "quan2", "zhen4">>])])])

GatewayReplies ==
    {IoError, NotJson, PlainOk, Reply("json", NonDict(FALSE)),
     Reply("json", NonDict(TRUE)), Reply("json", Dict(<<>>))} \cup StatusReplies

\* no call made yet
NoCall == [path |-> <<>>, io |-> IoError, admitted |-> FALSE,
           date_before |-> NoDate, counter_before |-> EmptyCounter,
           count_after |-> 0, out |-> Returned(NoneVal)]


----------------------------------------------------------------------------
(* ExternalGateway *)

_check_response(result) ==
    IF result.t # "dict"
    THEN IF result.truthy
         THEN Raised(OtherError("AttributeError", <<"object has no attribute get">>))
         ELSE Raised(AmapError(<<"30000">>, EmptyMessage))
    ELSE IF DOMAIN result.d = {}
    THEN Raised(AmapError(<<"30000">>, EmptyMessage))
    ELSE LET status == Get(result.d, "status", NoneVal)
             info == Get(result.d, "info", NoneVal)
             infocode == Get(result.d, "infocode", NoneVal)
         IN  IF status # <<"1">>
             THEN LET error_msg == IF infocode \in DOMAIN ERROR_MESSAGES
                                   THEN ERROR_MESSAGES[infocode] ELSE info
                  IN  Raised(AmapError(infocode, error_msg))
             ELSE Returned(NoneVal)

_rate_limit(w, oversleep) ==
    LET current_time == w.now
        time_diff == current_time - w.last_request_time
        woke == IF time_diff < MinInterval
                THEN current_time + (MinInterval - time_diff) + oversleep
                ELSE current_time
    IN  [w EXCEPT !.now = woke,
                  !.last_request_time = woke,
                  !.request_count = @ + 1]

QuotaOf(path) ==
    IF StartsWith(path, <<"v3", "place">>) THEN SearchQuota ELSE BasicQuota

\* mutant: a rollover clears the count of the called path only
_check_quota_clears_one(w, path) ==
    LET counter == IF w.quota_date # w.today
                   THEN [w.quota_counter EXCEPT ![path] = 0] ELSE w.quota_counter
        counted == [counter EXCEPT ![path] = @ + 1]
    IN  [w |-> [w EXCEPT !.quota_date = w.today, !.quota_counter = counted],
         ret |-> counted[path] <= QuotaOf(path)]

\* mutant: a call refused for quota is not counted
_check_quota_counts_admitted(w, path) ==
    LET counter == IF w.quota_date # w.today THEN EmptyCounter ELSE w.quota_counter
        counted == [counter EXCEPT ![path] = @ + 1]
    IN  [w |-> [w EXCEPT !.quota_date = w.today,
                         !.quota_counter = IF counted[path] <= QuotaOf(path)
                                           THEN counted ELSE counter],
         ret |-> counted[path] <= QuotaOf(path)]

_check_quota(w, path) ==
    LET counter == IF w.quota_date # w.today THEN EmptyCounter ELSE w.quota_counter
        counted == [counter EXCEPT ![path] = @ + 1]
    IN  [w |-> [w EXCEPT !.quota_date = w.today, !.quota_counter = counted],
         ret |-> counted[path] <= QuotaOf(path)]

\* except Exception as e: raise AmapError("30000", f"请求失败: {str(e)}")
Wrapped(e) == AmapError(<<"30000">>, FailedPrefix \o ErrStr(e))

\* what the last call of the gateway did, for the claims to read
Observed(w0, w1, path, io, admitted, out) ==
    [w1 EXCEPT !.call =
        [path |-> path, io |-> io, admitted |-> admitted,
         date_before |-> w0.quota_date, counter_before |-> w0.quota_counter,
         count_after |-> w1.quota_counter[path], out |-> out]]

\* mutant: the rate limiter runs before the quota check
_make_request_limits_first(w, path, io) ==
    LET q == _check_quota(_rate_limit(w, io.oversleep), path)
        out == IF q.ret THEN Returned(io.json)
               ELSE Raised(Wrapped(AmapError(<<"10003">>, QuotaMessage)))
    IN  [w |-> Observed(w, IF q.ret THEN Send(q.w) ELSE q.w, path, io, q.ret, out),
         out |-> out]

\* io: what the transport does with the request: [kind, json, oversleep]
_make_request(w, path, io) ==
    LET q == _check_quota(w, path)
    IN  IF ~q.ret
        THEN LET out == Raised(Wrapped(AmapError(<<"10003">>, QuotaMessage)))
             IN  [w |-> Observed(w, q.w, path, io, FALSE, out), out |-> out]
        ELSE LET w2 == Send(_rate_limit(q.w, io.oversleep))
                 out == CASE io.kind = "io_error" ->
                                Raised(Wrapped(OtherError("OSError", <<"connection failed">>)))
                          [] io.kind = "not_json" ->
                                Raised(AmapError(<<"30000">>, FormatMessage))
                          [] OTHER ->
                                LET chk == _check_response(io.json)
                                IN  IF chk.ok THEN Returned(io.json)
                                    ELSE Raised(Wrapped(chk.exc))
             IN  [w |-> Observed(w, w2, path, io, TRUE, out), out |-> out]

----------------------------------------------------------------------------
(* Lookups *)

\* the body of _geo_code and _regeo_code: a connection of its own, json.loads
\* of whatever arrives, {} on any exception
DirectRequest(w, io) ==
    [w |-> Send(w), val |-> IF io.kind = "json" THEN io.json ELSE Dict(<<>>)]

_geo_code(w, address, io) == DirectRequest(w, io)

_regeo_code(w, location, io) == DirectRequest(w, io)

\* result['districts'][0] when status is '1' and districts is truthy
FirstDistrict(result) ==
    IF result.t # "dict" THEN Raised(OtherError("AttributeError", <<"get">>))
    ELSE LET districts == GetC(result.d, "districts")
         IN  IF Get(result.d, "status", NoneVal) = <<"1">> /\ districts.truthy
             THEN IF districts.t = "list" THEN Returned(districts.items[1])
                  ELSE Raised(OtherError("KeyError", <<"0">>))
             ELSE Returned(NoneC)

_get_district_info(w, adcode, io) ==
    IF adcode \in DOMAIN w.adcode_cache
    THEN [w |-> w, val |-> w.adcode_cache[adcode]]
    ELSE LET w1 == Send(w)
             first == IF io.kind = "json" THEN FirstDistrict(io.json)
                      ELSE Raised(OtherError("OSError", <<"connection failed">>))
         IN  IF first.ok /\ first.val.t # "none"
             THEN [w |-> [w1 EXCEPT !.adcode_cache =
                            [a \in DOMAIN @ \cup {adcode} |->
                                IF a = adcode THEN first.val ELSE @[a]]],
                   val |-> first.val]
             ELSE [w |-> w1, val |-> Dict(<<>>)]

\* mutant: the entry kept for a name has lost the province
_get_district_by_name_keeps_less(w, name, io) ==
    IF name \in DOMAIN w.name_cache
    THEN [w |-> w, val |-> w.name_cache[name]]
    ELSE Let(_make_request(w, DistrictPath, io), LAMBDA r :
         Let(IF r.out.ok THEN FirstDistrict(r.out.val) ELSE r.out, LAMBDA first :
             IF first.ok /\ first.val.t = "dict"
             THEN [w |-> [r.w EXCEPT !.name_cache =
                            [n \in DOMAIN @ \cup {name} |->
                                IF n = name
                                THEN Dict([district |-> Get(first.val.d, "name", <<>>),
                                           adcode |-> Get(first.val.d, "adcode", <<>>)])
                                ELSE @[n]]],
                   val |-> Dict([province |-> Get(first.val.d, "province", <<>>),
                                 city |-> Get(first.val.d, "cityname", <<>>),
                                 district |-> Get(first.val.d, "name", <<>>),
                                 adcode |-> Get(first.val.d, "adcode", <<>>)])]
             ELSE [w |-> r.w, val |-> Dict(<<>>)]))

_get_district_by_name(w, name, io) ==
    IF name \in DOMAIN w.name_cache
    THEN [w |-> w, val |-> w.name_cache[name]]
    ELSE Let(_make_request(w, DistrictPath, io), LAMBDA r :
         Let(IF r.out.ok THEN FirstDistrict(r.out.val) ELSE r.out, LAMBDA first :
             IF first.ok /\ first.val.t = "dict"
             THEN Let(Dict([province |-> Get(first.val.d, "province", <<>>),
                            city |-> Get(first.val.d, "cityname", <<>>),
                            district |-> Get(first.val.d, "name", <<>>),
                            adcode |-> Get(first.val.d, "adcode", <<>>)]),
                      LAMBDA district_info :
                      [w |-> [r.w EXCEPT !.name_cache =
                                [n \in DOMAIN @ \cup {name} |->
                                    IF n = name THEN district_info ELSE @[n]]],
                       val |-> district_info])
             ELSE [w |-> r.w, val |-> Dict(<<>>)]))

\* cache[key] = val
Put(cache, key, val) ==
    [k \in DOMAIN cache \cup {key} |-> IF k = key THEN val ELSE cache[k]]

\* mutant: the city answered is not kept
_get_current_city_forgets(w, io) ==
    Let(_make_request(w, IpPath, io), LAMBDA r :
        IF r.out.ok /\ Get(r.out.val.d, "status", NoneVal) = <<"1">>
        THEN [w |-> r.w, val |-> Get(r.out.val.d, "city", <<>>), from |-> "response"]
        ELSE [w |-> r.w, val |-> <<>>, from |-> "failure"])

\* from: where the value returned was taken from
_get_current_city(w, io) ==
    IF w.current_city # Unset
    THEN [w |-> w, val |-> w.current_city, from |-> "cache"]
    ELSE Let(_make_request(w, IpPath, io), LAMBDA r :
             IF r.out.ok /\ Get(r.out.val.d, "status", NoneVal) = <<"1">>
             THEN Let(Get(r.out.val.d, "city", <<>>), LAMBDA city :
                      [w |-> [r.w EXCEPT !.current_city = city],
                       val |-> city, from |-> "response"])
             ELSE [w |-> r.w, val |-> <<>>, from |-> "failure"])

\* f"tips_{keywords}"
TipsKey(keywords) == <<"tips_">> \o keywords

\* ios: what the transport does with the requests of the call, in their
\* order; the two evaluations of self._get_current_city() come first
_get_input_tips(w, keywords, ios) ==
    IF TipsKey(keywords) \in DOMAIN w.tips_cache
    THEN [w |-> w, val |-> w.tips_cache[TipsKey(keywords)], from |-> "cache"]
    ELSE Let(_get_current_city(w, ios[1]), LAMBDA c1 :
         Let(_get_current_city(c1.w, ios[2]), LAMBDA c2 :
         Let(_make_request(c2.w, TipsPath, ios[3]), LAMBDA r :
             IF r.out.ok
             THEN [w |-> [r.w EXCEPT !.tips_cache = Put(@, TipsKey(keywords), r.out.val)],
                   val |-> r.out.val, from |-> "response"]
             ELSE [w |-> r.w, val |-> Dict(<<>>), from |-> "failure"])))

\* f"poi_{keywords}_{region}_{types}"
PoiKey(keywords, region, types) ==
    <<"poi_">> \o keywords \o <<"_">> \o region \o <<"_">> \o types

_search_poi_v2(w, keywords, region, types, io) ==
    IF PoiKey(keywords, region, types) \in DOMAIN w.poi_cache
    THEN [w |-> w, val |-> w.poi_cache[PoiKey(keywords, region, types)],
          from |-> "cache"]
    ELSE Let(_make_request(w, PlaceTextV5, io), LAMBDA r :
             IF r.out.ok /\ Get(r.out.val.d, "status", NoneVal) = <<"1">>
             THEN Let(IF "pois" \in DOMAIN r.out.val.d THEN r.out.val.d.pois
                      ELSE JList(<<>>), LAMBDA pois :
                      [w |-> [r.w EXCEPT !.poi_cache =
                                Put(@, PoiKey(keywords, region, types), pois)],
                       val |-> pois, from |-> "response"])
             ELSE [w |-> r.w, val |-> JList(<<>>), from |-> "failure"])

_convert_coordinates(w, locations, coordsys, io) ==
    Let(_make_request(w, ConvertPath, io), LAMBDA r :
        [w |-> r.w,
         val |-> IF r.out.ok THEN Get(r.out.val.d, "locations", <<>>) ELSE locations])

\* the tables of the weather texts, cut down to the keys the modelled answers use
WEATHER_DESC == [k \in {<<"qing">>, <<"yin">>} |-> <<"description of ">> \o k]
WIND_DIRECTION == [k \in {<<"dong">>, <<"xi">>} |-> k \o <<"feng">>]
WIND_POWER == [k \in {<<"4">>, <<"5">>} |-> <<"wind power ">> \o k]

Lookup(table, key, dflt) == IF key \in DOMAIN table THEN table[key] ELSE dflt

WeatherOf(d, weather, temp, wind, power) ==
    [weather |-> [code |-> Get(d, weather, <<>>),
                  desc |-> Lookup(WEATHER_DESC, Get(d, weather, <<>>), <<"unknown weather">>)],
     temperature |-> Fmt(Get(d, temp, <<>>)) \o <<"C">>,
     wind |-> [direction |-> Lookup(WIND_DIRECTION, Get(d, wind, <<>>), <<"unknown direction">>),
               power |-> Lookup(WIND_POWER, Get(d, power, <<>>), <<"unknown power">>)]]

\* weather_info['current']
CurrentOf(live) ==
    [t |-> "dict", truthy |-> TRUE,
     humidity |-> Fmt(Get(live, "humidity", <<>>)) \o <<"%">>,
     reporttime |-> Get(live, "reporttime", <<>>)]
    @@ WeatherOf(live, "weather", "temperature", "winddirection", "windpower")

\* one entry of weather_info['forecast']
ForecastOf(cast) ==
    [date |-> Get(cast, "date", <<>>), week |-> Get(cast, "week", <<>>),
     day |-> WeatherOf(cast, "dayweather", "daytemp", "daywind", "daypower"),
     night |-> WeatherOf(cast, "nightweather", "nighttemp", "nightwind", "nightpower")]

\* lines 773-828 with result in hand: weather_info, None when an exception
\* reaches the handler of line 830
WeatherInfoOf(result) ==
    LET lives == GetC(result, "lives")
        forecasts == GetC(result, "forecasts")
        live_ok == lives.truthy =>
                       (lives.t = "list" /\ lives.items[1].t = "dict")
        first_ok == forecasts.truthy =>
                       (forecasts.t = "list" /\ forecasts.items[1].t = "dict")
    IN  Let(IF forecasts.truthy /\ first_ok
               /\ "casts" \in DOMAIN forecasts.items[1].d
            THEN forecasts.items[1].d.casts ELSE JList(<<>>), LAMBDA casts :
            IF /\ live_ok /\ first_ok
               /\ casts.t = "list"
               /\ \A i \in 1..Len(casts.items) : casts.items[i].t = "dict"
            THEN [t |-> "dict", truthy |-> TRUE,
                  current |-> IF lives.truthy
                              THEN CurrentOf(lives.items[1].d) ELSE NoneC,
                  forecast |-> [i \in 1..Len(casts.items) |->
                                  ForecastOf(casts.items[i].d)]]
            ELSE NoneC)

\* mutant: a failed lookup answers {} instead of None
_get_weather_info_empty(w, adcode, io) ==
    Let(_make_request(w, WeatherPath, io), LAMBDA r :
        [w |-> r.w,
         val |-> IF r.out.ok THEN WeatherInfoOf(r.out.val.d) ELSE Dict(<<>>)])

_get_weather_info(w, adcode, io) ==
    Let(_make_request(w, WeatherPath, io), LAMBDA r :
        [w |-> r.w,
         val |-> IF r.out.ok THEN WeatherInfoOf(r.out.val.d) ELSE NoneC])

_search_poi(w, keywords, io) ==
    Let(_make_request(w, PlaceTextV3, io), LAMBDA r :
        [w |-> r.w,
         val |-> IF r.out.ok /\ "pois" \in DOMAIN r.out.val.d
                 THEN r.out.val.d.pois ELSE JList(<<>>)])

----------------------------------------------------------------------------
(* AddressResolutionChain: parse_address and _parse_address_by_text, cut at  *)
(* the lookups they make.  A position of the chain is a record               *)
(* s = [w, p, ret]: the state of the instance, the locals of the parse,      *)
(* and what the caller has received.                                         *)

_empty_components ==
    [province |-> <<>>, city |-> <<>>, district |-> <<>>, street |-> <<>>,
     building |-> <<>>, unit |-> <<>>, room |-> <<>>, name |-> <<>>,
     phone |-> <<>>, weather |-> NoneC]

\* mutant: city is taken as the response has it
Components_city_as_is(province, city, district, street) ==
    [_empty_components EXCEPT !.province = province, !.city = city,
                              !.district = district, !.street = street]

\* the dict literal of the three branches; city is "city or province"
Components(province, city, district, street) ==
    [_empty_components EXCEPT !.province = province,
                              !.city = IF Truthy(city) THEN city ELSE province,
                              !.district = district,
                              !.street = street]

\* no call of _clean_address_string in progress
NoFrame == [addr |-> <<>>, pattern |-> 2, todo |-> <<>>, out |-> <<>>,
            after |-> "parse_address"]

\* no parse started
Idle ==
    [pc |-> "idle", handler |-> "parse_address", address |-> <<>>,
     coordinates |-> NoneVal, coordsys |-> NoneVal, location |-> NoneVal,
     frame |-> NoFrame,
     clean_address |-> <<>>, components |-> _empty_components,
     adcode |-> <<>>, log |-> <<>>, parses |-> 0]

\* return result
Finish(s, result) == [s EXCEPT !.p.pc = "done", !.ret = result]

\* mutant: the handler of parse_address lets the exception through
parse_address_reraises(e) == Raised(e)

\* except Exception as e: ... return self._empty_components()   (lines 197-199)
parse_address_except(e) == Returned(_empty_components)

\* except Exception as e: print(...), then the return of line 1084
_parse_address_by_text_except(e) == Returned(_empty_components)

\* an exception raised at position s reaches the innermost try around it
Throw(s, e) ==
    Finish(s, IF s.p.handler = "_parse_address_by_text"
              THEN _parse_address_by_text_except(e)
              ELSE parse_address_except(e))

\* a lookup the parse made: which one, whether a cache answered, what the
\* transport did, what the lookup returned
Logged(s, kind, cached, io, val) ==
    [s EXCEPT !.p.log = Append(@, [kind |-> kind, cached |-> cached,
                                   io |-> io.kind, val |-> val])]

\* the county loops of _clean_address_string up to the next county that is
\* looked up: matches with 省 or 市 before them are passed over, the second
\* pattern is matched against the address as the first loop left it
RECURSIVE Settle(_)
Settle(f) ==
    IF f.todo # <<>>
    THEN IF NeedsLookup(f.addr, f.todo[1][1]) THEN f
         ELSE Settle([f EXCEPT !.todo = Tail(@)])
    ELSE IF f.pattern = 1
    THEN Settle([f EXCEPT !.pattern = 2, !.todo = CountyMatches(f.addr, 2)])
    ELSE f

\* the call self._clean_address_string(address); after names the caller
_clean_address_string(s, address, after) ==
    IF ~IsStr(address)
    THEN Throw(s, OtherError("TypeError", <<"expected string or bytes-like object">>))
    ELSE Let(Normalized(address), LAMBDA normalized :
             [s EXCEPT !.p.pc = "clean",
                       !.p.frame = Settle([addr |-> normalized, pattern |-> 1,
                                           todo |-> CountyMatches(normalized, 1),
                                           out |-> JoinedParts(normalized),
                                           after |-> after])])

\* _parse_address_by_text(address), up to its district lookup
_parse_address_by_text(s) ==
    _clean_address_string([s EXCEPT !.p.handler = "_parse_address_by_text"],
                          s.p.address, "_parse_address_by_text")

\* if location: ... else the text strategies   (lines 155-156, 194)
WithLocation(s, location) ==
    IF Truthy(location) THEN [s EXCEPT !.p.pc = "regeo", !.p.location = location]
    ELSE _parse_address_by_text(s)

\* lines 146-153: location stays None without coordinates
AfterClean(s) ==
    IF Truthy(s.p.coordinates) /\ Truthy(s.p.coordsys) /\ s.p.coordsys # <<"autonavi">>
    THEN [s EXCEPT !.p.pc = "convert"]
    ELSE WithLocation(s, IF Truthy(s.p.coordinates) THEN s.p.coordinates ELSE NoneVal)

\* components['name'], components['phone'] = name, phone
Named(components, contact) ==
    [components EXCEPT !.name = contact[1], !.phone = contact[2]]

\* lines 186-191: the weather is fetched and dropped
CoordinateWeather(s) ==
    IF Truthy(s.p.adcode) THEN [s EXCEPT !.p.pc = "coordinate_weather"]
    ELSE Finish(s, Returned(s.p.components))

\* lines 182-184, after the cleaning inside _extract_building_info
CoordinateBuilding(s, cleaned) ==
    Let(BuildingOf(s.p.address, s.p.components, cleaned), LAMBDA building_info :
        IF ~building_info.ok THEN Throw(s, building_info.exc)
        ELSE CoordinateWeather(
                [s EXCEPT !.p.components = building_info.val @@ s.p.components]))

\* lines 1065-1080, after the cleaning inside _extract_building_info
GeocodeBuilding(s, cleaned) ==
    Let(BuildingOf(s.p.clean_address, s.p.components, cleaned), LAMBDA building_info :
        IF ~building_info.ok THEN Throw(s, building_info.exc)
        ELSE Let(Named(building_info.val @@ s.p.components,
                       _extract_contact_info(s.p.clean_address)),
                 LAMBDA components :
                 IF Truthy(s.p.adcode)
                 THEN [s EXCEPT !.p.components = components,
                                !.p.pc = "geocode_weather"]
                 ELSE Finish([s EXCEPT !.p.components = components],
                             Returned(components))))

\* _clean_address_string returns to its caller
Resume(s) ==
    LET cleaned == s.p.frame.out
        after == s.p.frame.after
        s1 == [s EXCEPT !.p.frame = NoFrame]
    IN  CASE after = "parse_address" -> AfterClean(s1)
          [] after = "_parse_address_by_text" ->
                [s1 EXCEPT !.p.pc = "district", !.p.clean_address = cleaned]
          [] after = "coordinates" -> CoordinateBuilding(s1, cleaned)
          [] after = "geocode" -> GeocodeBuilding(s1, cleaned)

\* the chain runs on to its next lookup
RECURSIVE Run(_)
Run(s) ==
    IF s.p.pc = "clean" /\ s.p.frame.todo = <<>> THEN Run(Resume(s)) ELSE s

\* regeo_result.get('status') == '1' and regeo_result.get('regeocode')
RegeoFound(regeo_result) ==
    Get(regeo_result.d, "status", NoneVal) = <<"1">>
        /\ GetC(regeo_result.d, "regeocode").truthy

\* mutant: any answer of the district lookup is taken for a match
DistrictFound_any(district_info) == TRUE

\* mutant: the district match no longer ends the chain
DistrictFound_never(district_info) == FALSE

\* district_info and district_info.get('province')
DistrictFound(district_info) ==
    district_info.truthy /\ Truthy(Get(district_info.d, "province", <<>>))

\* geo_result.get('status') == '1' and geo_result.get('geocodes')
GeoFound(geo_result) ==
    Get(geo_result.d, "status", NoneVal) = <<"1">>
        /\ GetC(geo_result.d, "geocodes").truthy

AttributeError == OtherError("AttributeError", <<"object has no attribute get">>)

\* lines 157-194 with regeo_result in hand
CoordinateBranch(s, regeo_result) ==
    IF regeo_result.t # "dict" THEN Throw(s, AttributeError)
    ELSE IF ~RegeoFound(regeo_result) THEN _parse_address_by_text(s)
    ELSE LET regeo == regeo_result.d.regeocode
             address_component ==
                 IF regeo.t = "dict" /\ "addressComponent" \in DOMAIN regeo.d
                 THEN regeo.d.addressComponent ELSE Dict(<<>>)
         IN  IF regeo.t # "dict" \/ address_component.t # "dict"
             THEN Throw(s, AttributeError)
             ELSE LET ac == address_component.d
                      components == Components(Get(ac, "province", <<>>),
                                               Get(ac, "city", <<>>),
                                               Get(ac, "district", <<>>),
                                               Get(ac, "township", <<>>))
                      s1 == [s EXCEPT !.p.components = components,
                                      !.p.adcode = Get(ac, "adcode", <<>>)]
                  IN  IF Truthy(s.p.address)
                      THEN Let(Named(components, _extract_contact_info(s.p.address)),
                               LAMBDA named :
                           Let(BuildingRemainder(s.p.address, named),
                               LAMBDA remaining :
                               IF ~remaining.ok THEN Throw(s1, remaining.exc)
                               ELSE _clean_address_string(
                                        [s1 EXCEPT !.p.components = named],
                                        remaining.val, "coordinates")))
                      ELSE CoordinateWeather(s1)

\* lines 1010-1036 with district_info in hand
DistrictBranch(s, district_info) ==
    IF DistrictFound(district_info)
    THEN LET d == district_info.d
             components == Components(Get(d, "province", <<>>), Get(d, "city", <<>>),
                                      Get(d, "district", <<>>), <<>>)
             named == IF s.p.clean_address \notin
                            {Get(d, "province", <<>>), Get(d, "city", <<>>),
                             Get(d, "district", <<>>)}
                      THEN [components EXCEPT !.building = s.p.clean_address]
                      ELSE components
             s1 == [s EXCEPT !.p.components = named,
                             !.p.adcode = Get(d, "adcode", <<>>)]
         IN  IF Truthy(Get(d, "adcode", <<>>))
             THEN [s1 EXCEPT !.p.pc = "district_weather"]
             ELSE Finish(s1, Returned(named))
    ELSE [s EXCEPT !.p.pc = "geo"]

TypeError == OtherError("TypeError", <<"expected string or bytes-like object">>)

\* lines 1039-1084 with geo_result in hand
GeocodeBranch(s, geo_result) ==
    IF geo_result.t # "dict" THEN Throw(s, AttributeError)
    ELSE IF ~GeoFound(geo_result) THEN Finish(s, Returned(_empty_components))
    ELSE LET geocodes == geo_result.d.geocodes
         IN  IF geocodes.t # "list" THEN Throw(s, OtherError("KeyError", <<"0">>))
             ELSE IF geocodes.items[1].t # "dict" THEN Throw(s, AttributeError)
             ELSE
             LET geocode == geocodes.items[1].d
                 components == Components(Get(geocode, "province", <<>>),
                                          Get(geocode, "city", <<>>),
                                          Get(geocode, "district", <<>>), <<>>)
                 formatted_address == Get(geocode, "formatted_address", <<>>)
                 s1 == [s EXCEPT !.p.adcode = Get(geocode, "adcode", <<>>)]
             IN  Let(IF ~Truthy(formatted_address) THEN Returned(<<>>)
                     ELSE IF ~IsStr(formatted_address) THEN Raised(TypeError)
                     ELSE _extract_possible_street(formatted_address,
                              <<components.province, components.city,
                                components.district>>),
                     LAMBDA street :
                     IF ~street.ok THEN Throw(s1, street.exc)
                     ELSE Let([components EXCEPT !.street = street.val],
                              LAMBDA streeted :
                          Let(BuildingRemainder(s.p.clean_address, streeted),
                              LAMBDA remaining :
                              IF ~remaining.ok THEN Throw(s1, remaining.exc)
                              ELSE _clean_address_string(
                                       [s1 EXCEPT !.p.components = streeted],
                                       remaining.val, "geocode"))))

----------------------------------------------------------------------------
(* Operations *)


\* no helper called yet
NoHelper == [op |-> "none"]
NoQuery == [kind |-> "none", first |-> <<>>]

Threads == {1, 2}       \* callers that share one instance

\* a caller outside _make_request: the calls it has made, when it last sent
IdleThread(calls, sent_at) ==
    [pc |-> "idle", path |-> <<>>, today |-> NoDate, n |-> 0, wake |-> 0,
     calls |-> calls, sent_at |-> sent_at]

\* the instance after __init__, its callers and the observations
Constructed ==
    /\ now = StartTime
    /\ today = 1
    /\ last_request_time = 0
    /\ request_count = 0
    /\ _quota_counter = EmptyCounter
    /\ _quota_date = NoDate
    /\ _district_cache = <<>>
    /\ district_cache = <<>>
    /\ _tips_cache = <<>>
    /\ _poi_cache = <<>>
    /\ _current_city = Unset
    /\ wire = [sent_today |-> 0, last_send |-> -1, gap |-> -1]
    /\ call = NoCall
    /\ parse = Idle
    /\ ret = Returned(NoneC)
    /\ pure = NoHelper
    /\ asked = NoQuery
    /\ threads = [t \in Threads |-> IdleThread(0, -1)]
    /\ passed = EmptyCounter

\* the provider answers each request as it comes
NoProvider == [fixed |-> FALSE]

Init == Constructed /\ provider = NoProvider

\* the count the next quota check of the path starts from
Count(p) == IF _quota_date = today THEN _quota_counter[p] ELSE 0

GatewayPaths == {PlaceTextV3, PlaceTextV5, WeatherPath}

\* a long run of calls to one path, the other paths nearly idle
DeepRun(p) == today = 1 /\ \A q \in Paths \ {p} : Count(q) <= ShallowCalls

\* a long run is not interleaved with calls to other paths before it nears its end
MidRun(q) == ShallowCalls < Count(q) /\ Count(q) < QuotaOf(q)

\* self._make_request(path, params) called directly
GatewayCall(path, io) ==
    /\ Count(path) <= QuotaOf(path) + OverQuota
    /\ \A q \in Paths \ {path} : ~MidRun(q)
    /\ \/ Count(path) < ShallowCalls
       \/ DeepRun(path) /\ io = PlainOk
    /\ \E r \in {_make_request(World, path, io)} :
            SetWorld(r.w) /\ ret' = r.out /\ UNCHANGED <<parse, aside>>

\* midnight passes
NewDay ==
    /\ today < MaxDay
    /\ \/ \A p \in Paths : Count(p) <= ShallowCalls
       \/ \E p \in Paths : Count(p) > QuotaOf(p)
    /\ today' = today + 1
    /\ wire' = [wire EXCEPT !.sent_today = 0]
    /\ UNCHANGED <<now, last_request_time, request_count, _quota_counter,
                   _quota_date, _district_cache, district_cache, _tips_cache,
                   _poi_cache, _current_city, call, parse, ret, aside>>

NextGateway ==
    \/ \E path \in GatewayPaths, io \in GatewayReplies : GatewayCall(path, io)
    \/ NewDay

SpecGateway == Init /\ [][NextGateway]_vars

----------------------------------------------------------------------------
(* The lookups called one by one, as the window does for its own display *)

\* time passes
Tick ==
    /\ now < StartTime + MaxElapsed
    /\ now' = now + TickMs
    /\ UNCHANGED <<today, last_request_time, request_count, _quota_counter,
                   _quota_date, _district_cache, district_cache, _tips_cache,
                   _poi_cache, _current_city, wire, call, parse, ret, aside>>

Busy == wire.sent_today >= MaxSends

Does(r) ==
    ~Busy /\ SetWorld(r.w) /\ ret' = Returned(r.val) /\ UNCHANGED <<parse, aside>>

GeoCode(address, io) == Does(_geo_code(World, address, io))
RegeoCode(location, io) == Does(_regeo_code(World, location, io))
DistrictInfo(adcode, io) == Does(_get_district_info(World, adcode, io))
DistrictByName(name, io) == Does(_get_district_by_name(World, name, io))
WeatherInfo(adcode, io) == Does(_get_weather_info(World, adcode, io))
ConvertCoordinates(locations, io) ==
    Does(_convert_coordinates(World, locations, <<"gps">>, io))
SearchPoi(keywords, io) == Does(_search_poi(World, keywords, io))

NextLookups ==
    \/ \E io \in {IoError, GeoFull} : GeoCode(LinXian, io)
    \/ \E io \in {IoError, RegeoFull} : RegeoCode(Location, io)
    \/ \E io \in {IoError, DistrictFull} : DistrictInfo(Adcode, io)
    \/ \E io \in {IoError, DistrictFull} : DistrictByName(LinXian, io)
    \/ \E io \in {IoError, PlainOk} : WeatherInfo(Adcode, io)
    \/ \E io \in {IoError, PlainOk} : ConvertCoordinates(Location, io)
    \/ \E io \in {IoError, PlainOk} : SearchPoi(LinXian, io)
    \/ Tick
    \/ NewDay

SpecLookups == Init /\ [][NextLookups]_vars

----------------------------------------------------------------------------
(* The lookups that keep what they were answered *)

MaxQueries == 3         \* queries of the cached kinds made on one instance

Tips(keywords) == [kind |-> "tips", args |-> <<keywords>>]
City == [kind |-> "city", args |-> <<>>]
Poi(keywords, region, types) == [kind |-> "poi", args |-> <<keywords, region, types>>]
District(name) == [kind |-> "district", args |-> <<name>>]

Queries == Cardinality(DOMAIN asked.first)

\* the query q is made and r is what it did; the first result of q is kept
Asks(q, r) ==
    /\ ~Busy
    /\ q \in DOMAIN asked.first \/ Queries < MaxQueries
    /\ SetWorld(r.w)
    /\ ret' = Returned(r.val)
    /\ asked' = [kind |-> q.kind, args |-> q.args, from |-> r.from,
                 first |-> IF q \in DOMAIN asked.first THEN asked.first
                           ELSE Put(asked.first, q, [val |-> r.val, from |-> r.from])]
    /\ UNCHANGED <<parse, pure, threads, passed, provider>>

GetInputTips(keywords, ios) ==
    Asks(Tips(keywords), _get_input_tips(World, keywords, ios))

GetCurrentCity(io) == Asks(City, _get_current_city(World, io))

SearchPoiV2(keywords, region, types, io) ==
    Asks(Poi(keywords, region, types), _search_poi_v2(World, keywords, region, types, io))

\* the value comes from the cache when no request was made for it
GetDistrictByName(name, io) ==
    \E r \in {_get_district_by_name(World, name, io)} :
        Asks(District(name),
             [w |-> r.w, val |-> r.val,
              from |-> IF name \in DOMAIN _district_cache THEN "cache"
                       ELSE IF r.val.truthy THEN "response" ELSE "failure"])

Underscore == <<"_">>
DistrictOther ==
    Ok([districts |-> JList(<<Dict([province |-> ShanxiSheng, name |-> LinXian,
                                    adcode |-> <<"141100">>])>>)])
DistrictNone == Ok([districts |-> JList(<<>>)])
CityReplies == {IoError, Ok([city |-> LvliangShi])}
TipsReplies ==
    {IoError, Ok([tips |-> JList(<<Dict([name |-> ZhongshanLu])>>)]),
     Ok([tips |-> JList(<<>>)])}
PoiReplies ==
    {IoError, Ok([pois |-> JList(<<Dict([name |-> ZhongshanLu])>>)]),
     Ok([pois |-> JList(<<>>)]), PlainOk}

NextCached ==
    \/ \E io1, io2 \in CityReplies, io3 \in TipsReplies :
            GetInputTips(LinXian, <<io1, io2, io3>>)
    \/ \E io \in CityReplies : GetCurrentCity(io)
    \/ \E a \in {<<LinXian \o Underscore \o LvliangShi, <<>> >>,
                 <<LinXian, LvliangShi \o Underscore>>},
          io \in PoiReplies : SearchPoiV2(a[1], a[2], <<>>, io)
    \/ \E io \in {IoError, DistrictFull, DistrictOther, DistrictNone} :
            GetDistrictByName(LinXian, io)
    \/ NewDay

SpecCached == Init /\ [][NextCached]_vars

----------------------------------------------------------------------------
(* Callers that share the instance: _make_request statement by statement.   *)
(* The class holds no lock, so a caller can be suspended between any two    *)
(* statements; what a caller has read stays in its locals.                  *)

MaxCalls == 2           \* calls of one caller

AllIdle == \A t \in Threads : threads[t].pc = "idle"

\* caller t moves on: its record becomes c, the instance becomes w
Moves(t, c, w) ==
    /\ threads' = [threads EXCEPT ![t] = c]
    /\ SetWorld(w)
    /\ UNCHANGED <<parse, ret, pure, asked, provider>>

\* self._make_request(path, params): today = datetime.now()..., and the test
\* not hasattr(self, '_quota_date') or self._quota_date != today
QuotaTest(t, path) ==
    /\ threads[t].pc = "idle"
    /\ threads[t].calls < MaxCalls
    /\ Moves(t, [threads[t] EXCEPT !.pc = IF _quota_date # today THEN "quota_date"
                                         ELSE "quota_read",
                                   !.path = path, !.today = today,
                                   !.calls = @ + 1], World)
    /\ UNCHANGED passed

\* self._quota_date = today
QuotaDate(t) ==
    /\ threads[t].pc = "quota_date"
    /\ Moves(t, [threads[t] EXCEPT !.pc = "quota_clear"],
             [World EXCEPT !.quota_date = threads[t].today])
    /\ UNCHANGED passed

\* self._quota_counter = {}
QuotaClear(t) ==
    /\ threads[t].pc = "quota_clear"
    /\ Moves(t, [threads[t] EXCEPT !.pc = "quota_read"],
             [World EXCEPT !.quota_counter = EmptyCounter])
    /\ UNCHANGED passed

\* self._quota_counter.get(path, 0), the right-hand side of the update
QuotaRead(t) ==
    /\ threads[t].pc = "quota_read"
    /\ Moves(t, [threads[t] EXCEPT !.pc = "quota_write",
                                   !.n = _quota_counter[threads[t].path]], World)
    /\ UNCHANGED passed

\* self._quota_counter[path] = ... + 1
QuotaWrite(t) ==
    /\ threads[t].pc = "quota_write"
    /\ Moves(t, [threads[t] EXCEPT !.pc = "quota_ret"],
             [World EXCEPT !.quota_counter[threads[t].path] = threads[t].n + 1])
    /\ UNCHANGED passed

\* return self._quota_counter[path] <= quota; a refused call raises
QuotaRet(t) ==
    /\ threads[t].pc = "quota_ret"
    /\ Moves(t, IF _quota_counter[threads[t].path] <= QuotaOf(threads[t].path)
                THEN [threads[t] EXCEPT !.pc = "rate_read"]
                ELSE IdleThread(threads[t].calls, threads[t].sent_at), World)
    /\ passed' = [passed EXCEPT ![threads[t].path] = @ + 1]

\* current_time = time.time(); time_diff = current_time - self.last_request_time
RateRead(t) ==
    /\ threads[t].pc = "rate_read"
    /\ Moves(t, IF now - last_request_time < MinInterval
                THEN [threads[t] EXCEPT !.pc = "rate_sleep",
                            !.wake = now + (MinInterval - (now - last_request_time))]
                ELSE [threads[t] EXCEPT !.pc = "rate_stamp"], World)
    /\ UNCHANGED passed

\* time.sleep(0.1 - time_diff) returns
RateSleep(t) ==
    /\ threads[t].pc = "rate_sleep"
    /\ now >= threads[t].wake
    /\ Moves(t, [threads[t] EXCEPT !.pc = "rate_stamp"], World)
    /\ UNCHANGED passed

\* self.last_request_time = time.time(); self.request_count += 1
RateStamp(t) ==
    /\ threads[t].pc = "rate_stamp"
    /\ Moves(t, [threads[t] EXCEPT !.pc = "request"],
             [World EXCEPT !.last_request_time = now, !.request_count = @ + 1])
    /\ UNCHANGED passed

\* conn.request("GET", full_path); what follows touches the caller's locals only
Request(t) ==
    /\ threads[t].pc = "request"
    /\ Moves(t, IdleThread(threads[t].calls, now), Send(World))
    /\ UNCHANGED passed

\* midnight passes while no call is in progress
Midnight ==
    /\ AllIdle
    /\ today < MaxDay
    /\ today' = today + 1
    /\ wire' = [wire EXCEPT !.sent_today = 0]
    /\ passed' = EmptyCounter
    /\ UNCHANGED <<now, last_request_time, request_count, _quota_counter,
                   _quota_date, _district_cache, district_cache, _tips_cache,
                   _poi_cache, _current_city, call, parse, ret, pure, asked, threads,
                   provider>>

\* the first caller asks for the weather, the second also searches
PathsOf(t) == IF t = 1 THEN {WeatherPath} ELSE {WeatherPath, PlaceTextV3}

NextThreads ==
    \/ \E t \in Threads : \E path \in PathsOf(t) : QuotaTest(t, path)
    \/ \E t \in Threads : QuotaDate(t)
    \/ \E t \in Threads : QuotaClear(t)
    \/ \E t \in Threads : QuotaRead(t)
    \/ \E t \in Threads : QuotaWrite(t)
    \/ \E t \in Threads : QuotaRet(t)
    \/ \E t \in Threads : RateRead(t)
    \/ \E t \in Threads : RateSleep(t)
    \/ \E t \in Threads : RateStamp(t)
    \/ \E t \in Threads : Request(t)
    \/ Tick
    \/ Midnight

SpecThreads == Init /\ [][NextThreads]_vars

----------------------------------------------------------------------------
(* The parses of the window and of the callers of AddressCompleter *)

MaxParses == 2          \* parses followed on one instance
VariedParses == 1       \* parses whose lookups draw every kind of answer

ContactText ==
    <<"zhang1", "xian1", "sheng1", "1", "3", "8", "1", "2", "3", "4", "5", "6", "7", "8">>
DoorText == LinXian \o ZhongshanLu \o <<"3", "hao4">>
Addresses == {<<>>, LinXian, DoorText, ContactText, NoneVal}

\* a municipality as the provider writes it: the empty fields are []
BareFields == [province |-> <<"bei3", "jing1", "shi4">>, city |-> EmptyList,
               district |-> EmptyList, adcode |-> <<"110000">>]

StatusZero == Reply("json", Dict([status |-> <<"0">>, info |-> <<"PROVIDER_TEXT">>,
                                  infocode |-> <<"10001">>]))
Malformed == Reply("json", NonDict(TRUE))

DistrictReplies ==
    {IoError, StatusZero, DistrictFull,
     Ok([districts |-> JList(<<Dict([name |-> LinXian])>>)]),
     Ok([districts |-> JList(<<NonDict(TRUE)>>)])}
RegeoReplies ==
    {IoError, StatusZero, Malformed, RegeoFull,
     Ok([regeocode |-> Dict([addressComponent |-> Dict(BareFields)])]),
     Ok([regeocode |-> NonDict(TRUE)])}
GeoReplies ==
    {IoError, StatusZero, Malformed, GeoFull,
     Ok([geocodes |-> JList(<<Dict(BareFields)>>)]),
     Ok([geocodes |-> JList(<<NonDict(TRUE)>>)])}
ConvertReplies == {IoError, PlainOk, Ok([locations |-> Location])}
ChainWeatherReplies == {IoError, StatusZero, PlainOk, Ok([lives |-> JList(<<Live>>)])}

\* the answers a lookup of the parse in progress draws from: after the first
\* VariedParses parses, the transport either fails or brings the full answer
Drawn(replies, full) ==
    IF parse.parses <= VariedParses THEN replies ELSE {IoError, full}

Here == [w |-> World, p |-> parse, ret |-> ret]

\* with the provider held fixed, what each parse returns is kept
Noted(s) ==
    IF provider.fixed /\ parse.pc # "done" /\ s.p.pc = "done"
    THEN IF s.p.parses = 1
         THEN [provider EXCEPT !.first = s.ret, !.returned = 1]
         ELSE [provider EXCEPT !.second = s.ret, !.returned = 2]
    ELSE provider

\* the observations wire and call are kept for the calls made one by one
Apply(s) ==
    /\ SetWorld([s.w EXCEPT !.wire = wire, !.call = call])
    /\ parse' = s.p
    /\ ret' = s.ret
    /\ provider' = Noted(s)
    /\ UNCHANGED <<pure, asked, threads, passed>>

\* parser.parse_address(address, coordinates, coordsys)
parse_address(address, coordinates, coordsys) ==
    /\ parse.pc \in {"idle", "done"}
    /\ parse.parses < MaxParses
    /\ LET p0 == [Idle EXCEPT !.address = address, !.coordinates = coordinates,
                              !.coordsys = coordsys, !.parses = parse.parses + 1]
       IN  Apply(Run(_clean_address_string(
                [Here EXCEPT !.p = p0, !.ret = Returned(NoneC)], address,
                "parse_address")))

\* completer.complete_address(address_string)
complete_address(address_string) == parse_address(address_string, NoneVal, NoneVal)

\* district_info = self._get_district_by_name(county) of the county loops
CleanStep(io) ==
    /\ parse.pc = "clean"
    /\ \E r \in {_get_district_by_name(World, parse.frame.todo[1][2], io)} :
         LET f == parse.frame
             county == f.todo[1][2]
             district_info == r.val
             address == IF district_info.truthy
                        THEN Fmt(Get(district_info.d, "province", <<>>))
                               \o Fmt(Get(district_info.d, "city", <<>>)) \o f.addr
                        ELSE f.addr
             p1 == [parse EXCEPT !.frame = Settle([f EXCEPT !.addr = address,
                                                            !.todo = Tail(@)])]
         IN  Apply(Run(Logged([w |-> r.w, p |-> p1, ret |-> ret], "county",
                              county \in DOMAIN _district_cache, io, district_info)))

\* location = self._convert_coordinates(coordinates, coordsys)
ConvertStep(io) ==
    /\ parse.pc = "convert"
    /\ \E r \in {_convert_coordinates(World, parse.coordinates, parse.coordsys, io)} :
         Apply(Run(WithLocation(
            Logged([w |-> r.w, p |-> parse, ret |-> ret], "convert", FALSE, io,
                   Dict([locations |-> r.val])),
            r.val)))

\* regeo_result = self._regeo_code(location)
RegeoStep(io) ==
    /\ parse.pc = "regeo"
    /\ \E r \in {_regeo_code(World, parse.location, io)} :
         Apply(Run(CoordinateBranch(
            Logged([w |-> r.w, p |-> parse, ret |-> ret], "regeo", FALSE, io, r.val),
            r.val)))

\* district_info = self._get_district_by_name(clean_address)
DistrictStep(io) ==
    /\ parse.pc = "district"
    /\ \E r \in {_get_district_by_name(World, parse.clean_address, io)} :
         Apply(DistrictBranch(
            Logged([w |-> r.w, p |-> parse, ret |-> ret], "district",
                   parse.clean_address \in DOMAIN _district_cache, io, r.val),
            r.val))

\* geo_result = self._geo_code(clean_address)
GeoStep(io) ==
    /\ parse.pc = "geo"
    /\ \E r \in {_geo_code(World, parse.clean_address, io)} :
         Apply(Run(GeocodeBranch(
            Logged([w |-> r.w, p |-> parse, ret |-> ret], "geo", FALSE, io, r.val),
            r.val)))

\* mutant: the coordinate step keeps the weather it fetched
Weathered_always(pc, components, weather_info) ==
    [components EXCEPT !.weather = weather_info]

\* weather_info = ... of line 190, which the return of line 192 leaves out;
\* components['weather'] = ... of lines 1034 and 1078
Weathered(pc, components, weather_info) ==
    IF pc = "coordinate_weather" THEN components
    ELSE [components EXCEPT !.weather = weather_info]

\* self._get_weather_info(adcode), the last lookup of each branch
WeatherStep(io) ==
    /\ parse.pc \in {"coordinate_weather", "district_weather", "geocode_weather"}
    /\ \E r \in {_get_weather_info(World, parse.adcode, io)} :
         LET components == Weathered(parse.pc, parse.components, r.val)
         IN  Apply(Finish(
                Logged([w |-> r.w, p |-> [parse EXCEPT !.components = components],
                        ret |-> ret], "weather", FALSE, io, r.val),
                Returned(components)))

Next ==
    \/ \E a \in Addresses : complete_address(a)
    \/ \E a \in Addresses : parse_address(a, Location, <<"gps">>)
    \/ \E cs \in {NoneVal, <<"autonavi">>} : parse_address(LinXian, Location, cs)
    \/ \E io \in {IoError, DistrictFull} : CleanStep(io)
    \/ \E io \in Drawn(ConvertReplies, Ok([locations |-> Location])) : ConvertStep(io)
    \/ \E io \in Drawn(RegeoReplies, RegeoFull) : RegeoStep(io)
    \/ \E io \in Drawn(DistrictReplies, DistrictFull) : DistrictStep(io)
    \/ \E io \in Drawn(GeoReplies, GeoFull) : GeoStep(io)
    \/ \E io \in ChainWeatherReplies : WeatherStep(io)

Spec == Init /\ [][Next]_vars

----------------------------------------------------------------------------
(* One text parsed twice on one instance, the provider answering every       *)
(* request the same way, other lookups made on the instance in between       *)

SameTexts == {LinXian, DoorText}

\* county is the answer to the district request for 临县, district the answer
\* to the district request for any other name
Providers ==
  {p \in
    [fixed : {TRUE},
     address : SameTexts,
     coordinates : {NoneVal, Location},
     county : {IoError, DistrictFull},
     district : {IoError, DistrictFull,
                 Ok([districts |-> JList(<<Dict([name |-> LinXian])>>)])},
     geo : {IoError, GeoFull, Ok([geocodes |-> JList(<<Dict(BareFields)>>)])},
     regeo : {IoError, RegeoFull},
     convert : {Ok([locations |-> Location])},
     weather : {IoError, Ok([lives |-> JList(<<Live>>)])},
     first : {Returned(NoneC)},
     second : {Returned(NoneC)},
     returned : {0}] :
    \* the answer to a reverse geocoding matters to a parse with coordinates
    p.coordinates = NoneVal => p.regeo = IoError}

InitSame == Constructed /\ provider \in Providers

DistrictAnswer(name) == IF name = LinXian THEN provider.county ELSE provider.district

\* no parse is in progress
Between == parse.pc \in {"idle", "done"}

NextSame ==
    \/ parse_address(provider.address, provider.coordinates,
                     IF provider.coordinates = NoneVal THEN NoneVal ELSE <<"gps">>)
    \/ parse.pc = "clean" /\ CleanStep(DistrictAnswer(parse.frame.todo[1][2]))
    \/ ConvertStep(provider.convert)
    \/ RegeoStep(provider.regeo)
    \/ parse.pc = "district" /\ DistrictStep(DistrictAnswer(parse.clean_address))
    \/ GeoStep(provider.geo)
    \/ WeatherStep(provider.weather)
    \/ Between /\ \E n \in {LinXian, provider.address} :
                      DistrictByName(n, DistrictAnswer(n))
    \/ Between /\ WeatherInfo(Adcode, provider.weather)

SpecSame == InitSame /\ [][NextSame]_vars

----------------------------------------------------------------------------
(* Claims about the gateway, checked under SpecGateway *)

Called == call.path # <<>>

InitWorld ==
    [now |-> StartTime, today |-> 1, last_request_time |-> 0, request_count |-> 0,
     quota_counter |-> EmptyCounter, quota_date |-> NoDate, name_cache |-> <<>>,
     adcode_cache |-> <<>>, tips_cache |-> <<>>, poi_cache |-> <<>>,
     current_city |-> Unset, wire |-> [sent_today |-> 0, last_send |-> -1, gap |-> -1],
     call |-> NoCall]

\* the error a caller of the gateway receives for a failing answer
ErrorOf(io) == _make_request(InitWorld, WeatherPath, io).out.exc

\* two errors differ in what a handler can dispatch on: the class or the code
TellApart(e1, e2) == e1.exc # e2.exc \/ e1.code # e2.code

\* C5: with daily limit N, the first N calls of a day to a path are not rejected
\* for quota, and call N+1 fails with an error that the caller can tell apart
\* from a provider ServiceError and from a transport failure.
C5_QuotaExceededDistinct ==
    Called =>
        /\ (call.count_after <= QuotaOf(call.path) => call.admitted)
        /\ (call.count_after = QuotaOf(call.path) + 1 =>
                /\ ~call.admitted
                /\ ~call.out.ok
                /\ \A io \in {IoError} \cup StatusReplies :
                        TellApart(call.out.exc, ErrorOf(io)))

\* C6: the counters are reset exactly when a quota check observes a date other
\* than the stored one: then every path's count is cleared (the called path
\* counts 1) and the call is admitted; while the stored date stays, no counter
\* decreases.
C6_ResetOnRollover ==
    [][ /\ (_quota_date' # _quota_date) =>
              /\ _quota_date # today
              /\ _quota_date' = today
              /\ \A p \in Paths :
                    _quota_counter'[p] = IF p = call'.path THEN 1 ELSE 0
              /\ call'.admitted
        /\ (_quota_date' = _quota_date) =>
              \A p \in Paths : _quota_counter'[p] >= _quota_counter[p]
        /\ (_quota_counter' # _quota_counter /\ _quota_date # today) =>
              _quota_date' # _quota_date
      ]_vars

C6_Witness ==
    /\ Called
    /\ call.date_before \notin {NoDate, _quota_date}
    /\ call.counter_before[call.path] > QuotaOf(call.path)
    /\ call.admitted
    /\ \E q \in Paths \ {call.path} :
          call.counter_before[q] > 0 /\ _quota_counter[q] = 0

\* C7: the limit applied is 100 for both POI text search paths (v1 and v2) and
\* 5000 for every other path; counters are per path.
ClaimedQuota(p) ==
    IF p \in {PlaceTextV3, PlaceTextV5} THEN SearchQuota ELSE BasicQuota

C7_SearchPathsLimit ==
    Called => (call.admitted <=> call.count_after <= ClaimedQuota(call.path))

\* C10: a decoded response whose status is not success makes the call fail
\* with an error carrying the provider's code and the table's message for it,
\* or the provider's own text when the code is not in the table.
C10_ServiceErrorCarriesCode ==
    (Called /\ call.admitted /\ call.io.kind = "json"
        /\ call.io.json.t = "dict" /\ call.io.json.truthy
        /\ Get(call.io.json.d, "status", NoneVal) # <<"1">>) =>
        LET infocode == Get(call.io.json.d, "infocode", NoneVal)
            info == Get(call.io.json.d, "info", NoneVal)
        IN  /\ ~call.out.ok
            /\ call.out.exc.exc = "AmapError"
            /\ call.out.exc.code = infocode
            /\ call.out.exc.message =
                  IF infocode \in DOMAIN ERROR_MESSAGES
                  THEN ERROR_MESSAGES[infocode] ELSE info

----------------------------------------------------------------------------
(* Claims about the lookups, checked under SpecLookups *)

RECURSIVE SumOver(_, _)
SumOver(f, S) ==
    IF S = {} THEN 0
    ELSE LET p == CHOOSE x \in S : TRUE IN f[p] + SumOver(f, S \ {p})

\* the calls counted for the current day
CountedToday == IF _quota_date = today THEN SumOver(_quota_counter, Paths) ELSE 0

\* C8: any two consecutive outbound requests of the instance, whatever lookup
\* issues them, start at least 100 ms apart.
C8_GlobalSpacing == wire.gap >= 0 => wire.gap >= MinInterval

\* C9: every outbound request of forward geocode, reverse geocode and district
\* lookup passes the quota check and is counted, so the daily counters sum to
\* at least the number of requests sent that day.
C9_LookupsCounted == wire.sent_today <= CountedToday

----------------------------------------------------------------------------
(* Claims about the parse, checked under Spec *)

Done == parse.pc = "done"

NineKeys == {"province", "city", "district", "street", "building", "unit",
             "room", "name", "phone"}

Events == 1..Len(parse.log)
Kind(i) == parse.log[i].kind

\* C1: for every input and every combination of provider answers, the record
\* returned holds the nine keys and each of their values is a string, never a
\* value of another type taken over from a provider answer.
C1_NineStrings ==
    Done => /\ ret.ok
            /\ \A k \in NineKeys : k \in DOMAIN ret.val /\ IsStr(ret.val[k])

\* C2: whatever the input and whatever the outcome of every inner lookup, the
\* parse returns a record to its caller and never raises.
C2_NeverRaises ==
    Done => ret.ok /\ DOMAIN ret.val = NineKeys \cup {"weather"}

\* a reverse geocode answered by JSON that is not an object: the exception it
\* causes is met by the handler of parse_address
C2_Witness ==
    /\ Done
    /\ \E i \in Events : Kind(i) = "regeo" /\ parse.log[i].val.t # "dict"
    /\ ret = Returned(_empty_components)

\* every request the parse sent failed at the transport
AllFailed == \A i \in Events : ~parse.log[i].cached => parse.log[i].io = "io_error"

\* the district lookup of the whole cleaned text was answered by _district_cache
DistrictFromCache == \E i \in Events : Kind(i) = "district" /\ parse.log[i].cached

\* C3 as stated: when every external call of a parse fails at the transport,
\* the all-empty record is returned.
C3_AllFailEmptyAnyCache ==
    (Done /\ AllFailed) => ret = Returned(_empty_components)

\* C3: when every external call of a parse fails at the transport and the
\* cleaned text has no entry in the district cache of the instance, the
\* all-empty record is returned, whatever the input text contains.
C3_AllFailEmpty ==
    (Done /\ AllFailed /\ ~DistrictFromCache) => ret = Returned(_empty_components)

\* a text with a name and a phone number, the district lookup and the forward
\* geocode both sent and both failed
C3_Witness ==
    /\ Done /\ AllFailed /\ ~DistrictFromCache
    /\ parse.address = ContactText
    /\ \E i, j \in Events : Kind(i) = "district" /\ Kind(j) = "geo"
    /\ ret = Returned(_empty_components)

\* the reverse geocode of event i found an address
RegeoSucceeded(i) ==
    /\ Kind(i) = "regeo"
    /\ parse.log[i].val.t = "dict"
    /\ Get(parse.log[i].val.d, "status", NoneVal) = <<"1">>
    /\ GetC(parse.log[i].val.d, "regeocode").truthy

\* the district-name lookup of event i returned a match with a province
Matched(i) ==
    /\ parse.log[i].val.truthy
    /\ Truthy(Get(parse.log[i].val.d, "province", <<>>))

\* the order of the lookups of one parse, names being the kinds of lookup that
\* count as district-name lookups
InOrder(names) ==
    /\ \A i, j \in Events :
          (i < j /\ Kind(j) = "regeo") =>
              ~(Kind(i) \in names \cup {"geo"} /\ ~parse.log[i].cached)
    /\ \A i, j \in Events :
          (i < j /\ RegeoSucceeded(i)) =>
              ~(Kind(j) \in names \cup {"geo"} /\ ~parse.log[j].cached)
    /\ \A i, j \in Events :
          (i < j /\ Kind(i) \in names /\ Matched(i)) => Kind(j) # "geo"
    /\ (\E i \in Events : Kind(i) \in {"convert", "regeo"}) =>
          Truthy(parse.coordinates)

----------------------------------------------------------------------------
(* The helpers of the parse called on their own, as a test of the module     *)
(* calls them: the texts are drawn from small alphabets                      *)

MaxCleanLen == 5        \* characters of the generated texts that are cleaned

\* the texts of at most n characters of the alphabet
Texts(alphabet, n) == UNION {[1..k -> alphabet] : k \in 0..n}

Beijing == Municipalities[1]
Shanghai == Municipalities[2]
HaidianQu == <<"hai3", "dian4", "qu1">>

CleanAlphabet == {"bei3", "jing1", "shi4", " ", "lu4"}

CleanTexts ==
    Texts(CleanAlphabet, MaxCleanLen)
        \cup {Beijing \o Beijing \o <<"shi4">> \o HaidianQu,
              Shanghai \o Shanghai \o Shanghai}

\* self._clean_address_string(address) returns; the addresses drawn hold no
\* county, so the call makes no district lookup
Cleaned(address, again) ==
    \E s \in {_clean_address_string(Here, address, "parse_address")} :
        /\ s.p.pc = "clean"
        /\ s.p.frame.todo = <<>>
        /\ pure' = [op |-> "_clean_address_string", arg |-> address,
                    out |-> s.p.frame.out, again |-> again]
        /\ UNCHANGED instance

\* _clean_address_string called on a raw text
clean_address_string(address) == pure.op = "none" /\ Cleaned(address, FALSE)

\* _clean_address_string called on what it returned, as _extract_building_info
\* does with the cleaned address of _parse_address_by_text
clean_again ==
    /\ pure.op = "_clean_address_string"
    /\ ~pure.again
    /\ Cleaned(pure.out, TRUE)

Phone138 == <<"1", "3", "8", "1", "2", "3", "4", "5", "6", "7", "8">>
Phone139 == <<"1", "3", "9", "0", "0", "0", "0", "1", "1", "1", "1">>
\* eleven digits that are no mobile number: the second digit is 2
Digits123 == <<"1", "2", "3", "4", "5", "6", "7", "8", "9", "0", "1">>

ZhangXiansheng == <<"zhang1", "xian1", "sheng1">>
SongHuo == <<"song4", "huo4">>
BeijingDaxue == Beijing \o <<"da4", "xue2">>

ContactLeads == {<<>>, <<" ">>, Beijing}
ContactNames ==
    {<<>>, ZhangXiansheng, <<"zhang1", "san1">>, <<"zhang1">>,
     <<"wang2", "xiao3", "ming2">>, <<"li3", "nv3", "shi4b">>, <<"li3", "lu4">>,
     <<"xian1", "sheng1">>, BeijingDaxue}
ContactPhones == {<<>>, Phone138, Phone139, Digits123}
ContactTails == {<<>>, SongHuo, <<" ">>, <<",">>, <<" ">> \o Phone139}

ContactTexts ==
    {l \o n \o p \o e : l \in ContactLeads, n \in ContactNames,
                        p \in ContactPhones, e \in ContactTails}

\* name, phone = self._extract_contact_info(address)
extract_contact_info(address) ==
    /\ pure.op = "none"
    /\ pure' = [op |-> "_extract_contact_info", arg |-> address,
                out |-> _extract_contact_info(address)]
    /\ UNCHANGED instance

MaxTokens == 3          \* tokens of the generated addresses that are decomposed

\* the concatenations of at most n of the tokens
RECURSIVE Phrases(_, _)
Phrases(tokens, n) ==
    IF n = 0 THEN {<<>>}
    ELSE {<<>>} \cup {k \o p : k \in tokens, p \in Phrases(tokens, n - 1)}

BeijingShi == Beijing \o <<"shi4">>
QinghuaDaxue == <<"qing1", "hua2", "da4", "xue2">>
DongMen == <<"dong1", "men2">>
RenminYiyuan == <<"ren2", "min2", "yi1b", "yuan4">>
FushuZhongxue == <<"fu4", "shu3", "zhong1", "xue2">>

PlaceTokens == {BeijingShi, HaidianQu, QinghuaDaxue, DongMen, RenminYiyuan,
                FushuZhongxue}

HaoLou3 == <<"3", "hao4", "lou2">>
DanYuan2 == <<"2", "dan1", "yuan2b">>

DoorTokens == {HaoLou3, DanYuan2, <<"5", "0", "1">>, <<"shi4c">>, <<" ">>, <<"A">>,
               <<"-">>}

\* a building numbered as the room, and a room behind a word that ends in 室
DoorTexts ==
    Phrases(DoorTokens, MaxTokens)
        \cup {HaoLou3 \o DanYuan2 \o <<"5", "0", "1", "shi4c">>,
              <<"1", "0", "1", "hao4", "lou2", "1", "0", "1", "shi4c">>,
              <<"ban4", "gong1", "shi4c", "5", "0", "1">>}

Unknown == [_empty_components EXCEPT !.weather = NoneC]

\* the components the decomposer is handed: nothing known, a municipality with
\* its district, a municipality whose district the provider left as []
KnownComponents ==
    {Unknown,
     Components(BeijingShi, EmptyList, HaidianQu, <<>>),
     Components(BeijingShi, EmptyList, EmptyList, <<>>)}

\* building_info = self._extract_building_info(address, components); the
\* addresses drawn hold no county, so the cleaning makes no district lookup
extract_building_info(address, components) ==
    /\ pure.op = "none"
    /\ \E remaining \in {BuildingRemainder(address, components)} :
         IF remaining.ok
         THEN \E s \in {_clean_address_string(Here, remaining.val, "geocode")} :
                 /\ s.p.pc = "clean"
                 /\ s.p.frame.todo = <<>>
                 /\ pure' = [op |-> "_extract_building_info", arg |-> address,
                             components |-> components,
                             remaining_address |-> s.p.frame.out,
                             out |-> BuildingOf(address, components, s.p.frame.out)]
         ELSE pure' = [op |-> "_extract_building_info", arg |-> address,
                       components |-> components, remaining_address |-> address,
                       out |-> remaining]
    /\ UNCHANGED instance

\* x in address, for a value x of a candidate
In(x, address) ==
    IF IsStr(x) THEN Returned(Contains(address, x))
    ELSE Raised(OtherError("TypeError",
                           <<"'in <string>' requires string as left operand">>))

\* r is whether a value is in the address: the points for it, or its exception
Points(r, points) ==
    IF r.ok THEN Returned(IF r.val THEN points ELSE 0) ELSE r

\* type.split(';')
RECURSIVE SplitTags(_)
SplitTags(s) ==
    IF \E i \in 1..Len(s) : s[i] = ";"
    THEN Let(Min({i \in 1..Len(s) : s[i] = ";"}), LAMBDA i :
             <<SubSeq(s, 1, i - 1)>> \o SplitTags(SubSeq(s, i + 1, Len(s))))
    ELSE <<s>>

\* the parts of the score of one candidate in the order of lines 866-899, each
\* the points it adds or the exception it raises
ScoreParts(poi, address) ==
    << \* poi.get('name') in address, poi.get('name') == address
       Points(In(Get(poi, "name", NoneVal), address),
              IF Get(poi, "name", NoneVal) = address THEN 8 ELSE 5),
       \* poi['address'] in address, elif address in poi['address']
       IF ~Truthy(Get(poi, "address", NoneVal)) THEN Returned(0)
       ELSE Let(In(poi.address, address), LAMBDA r :
                IF ~r.ok THEN r
                ELSE Returned(IF r.val THEN 3
                              ELSE IF Contains(poi.address, address) THEN 2 ELSE 0)),
       \* poi.get('adname') in address
       Points(In(Get(poi, "adname", NoneVal), address), 2),
       \* poi.get('business', {}).get('business_area')
       IF "business" \notin DOMAIN poi THEN Returned(0)
       ELSE IF poi.business.t # "dict"
       THEN Raised(OtherError("AttributeError", <<"object has no attribute get">>))
       ELSE IF ~Truthy(Get(poi.business.d, "business_area", NoneVal)) THEN Returned(0)
       ELSE Points(In(poi.business.d.business_area, address), 1),
       \* any(t in address for t in poi['type'].split(';'))
       IF ~Truthy(Get(poi, "type", NoneVal)) THEN Returned(0)
       ELSE IF ~IsStr(poi.type)
       THEN Raised(OtherError("AttributeError", <<"object has no attribute split">>))
       ELSE Let(SplitTags(poi.type), LAMBDA tags :
                Returned(IF \E k \in 1..Len(tags) : Contains(address, tags[k])
                         THEN 1 ELSE 0)),
       \* poi.get('alias') and poi['alias'] in address
       IF ~Truthy(Get(poi, "alias", NoneVal)) THEN Returned(0)
       ELSE Points(In(poi.alias, address), 1),
       \* for child in poi['children']: child.get('name') in address
       IF "children" \notin DOMAIN poi THEN Returned(0)
       ELSE Let([k \in 1..Len(poi.children) |->
                    In(Get(poi.children[k], "name", NoneVal), address)], LAMBDA found :
                IF \E k \in DOMAIN found : ~found[k].ok
                THEN found[Min({k \in DOMAIN found : ~found[k].ok})]
                ELSE Returned(2 * Cardinality({k \in DOMAIN found : found[k].val}))) >>

RECURSIVE Total(_)
Total(parts) ==
    IF parts = <<>> THEN 0 ELSE parts[1].val + Total(Tail(parts))

\* the score of one candidate, or the first exception of its computation
Score(poi, address) ==
    Let(ScoreParts(poi, address), LAMBDA parts :
        IF \E k \in DOMAIN parts : ~parts[k].ok
        THEN parts[Min({k \in DOMAIN parts : ~parts[k].ok})]
        ELSE Returned(Total(parts)))

\* max(scored_pois, key=lambda x: x[0]): the first of the highest scores
FirstMax(scores) ==
    Min({i \in DOMAIN scores : \A j \in DOMAIN scores : scores[j] <= scores[i]})

\* mutant: the last of the highest scores
FirstMax_last(scores) ==
    Max({i \in DOMAIN scores : \A j \in DOMAIN scores : scores[j] <= scores[i]})

\* returns <<poi>> for the candidate found and <<>> for None
_find_best_poi_match(pois, address) ==
    IF pois = <<>> THEN Returned(<<>>)
    ELSE Let([i \in 1..Len(pois) |-> Score(pois[i], address)], LAMBDA scored :
             IF \E i \in DOMAIN scored : ~scored[i].ok
             THEN scored[Min({i \in DOMAIN scored : ~scored[i].ok})]
             ELSE Returned(<<pois[FirstMax([i \in DOMAIN scored |-> scored[i].val])]>>))

MaxPois == 3            \* candidates of a list

\* candidates as the provider writes them: an empty field is [] or is left out
Candidates ==
    {[name |-> QinghuaDaxue, adname |-> HaidianQu],
     [name |-> QinghuaDaxue \o DongMen, adname |-> HaidianQu,
      address |-> HaidianQu \o QinghuaDaxue],
     [name |-> QinghuaDaxue, adname |-> HaidianQu, address |-> EmptyList,
      type |-> <<"da4", "xue2", ";", "xue2", "yuan4">>, alias |-> <<"qing1", "hua2">>,
      business |-> Dict([business_area |-> HaidianQu]),
      children |-> <<[name |-> DongMen], [name |-> <<"xi1", "men2">>]>>],
     [name |-> DongMen, adname |-> BeijingShi],
     [name |-> DongMen, adname |-> EmptyList],
     [name |-> RenminYiyuan]}

MatchedTexts == {HaidianQu \o QinghuaDaxue \o DongMen, QinghuaDaxue, DongMen}

\* self._find_best_poi_match(pois, address)
find_best_poi_match(pois, address) ==
    /\ pure.op = "none"
    /\ pure' = [op |-> "_find_best_poi_match", pois |-> pois, arg |-> address,
                out |-> _find_best_poi_match(pois, address)]
    /\ UNCHANGED instance

NextText ==
    \/ \E a \in CleanTexts : clean_address_string(a)
    \/ clean_again
    \/ \E a \in ContactTexts : extract_contact_info(a)
    \/ \E a \in Phrases(PlaceTokens, MaxTokens) \cup DoorTexts, c \in KnownComponents :
            extract_building_info(a, c)
    \/ \E pois \in Texts(Candidates, MaxPois), a \in MatchedTexts :
            find_best_poi_match(pois, a)

SpecText == Init /\ [][NextText]_vars

----------------------------------------------------------------------------
(* Claims about the helpers, checked under SpecText *)

CleanedOnce == pure.op = "_clean_address_string" /\ ~pure.again
CleanedTwice == pure.op = "_clean_address_string" /\ pure.again

\* C14: cleaning is idempotent: cleaning the text that a cleaning returned
\* gives that text back, also when a municipality is repeated three times or
\* more and when the removal of a duplicate token brings tokens together.
C14_CleanIdempotent == CleanedTwice => pure.out = pure.arg

\* the number of occurrences of sub in s
Occurrences(s, sub) == Cardinality({i \in 1..Len(s) : At(s, i, sub)})

\* the number of repetitions of name, each with or without 市 after it, that
\* follow one another from index i on
RECURSIVE Repetitions(_, _, _)
Repetitions(s, i, name) ==
    IF At(s, i, name)
    THEN 1 + Repetitions(s, IF At(s, i + Len(name), <<"shi4">>)
                            THEN i + Len(name) + 1 ELSE i + Len(name), name)
    ELSE 0

\* the index after those repetitions
RECURSIVE RunEnd(_, _, _)
RunEnd(s, i, name) ==
    IF At(s, i, name)
    THEN RunEnd(s, IF At(s, i + Len(name), <<"shi4">>)
                   THEN i + Len(name) + 1 ELSE i + Len(name), name)
    ELSE i

\* the text starts with a run of two or more repetitions of the name, and the
\* name does not occur after the run
OneRun(s, name) ==
    /\ Repetitions(s, 1, name) >= 2
    /\ \A i \in RunEnd(s, 1, name)..Len(s) : ~At(s, i, name)

\* C15: a run of two or more repetitions of a municipality, each with or
\* without 市, is replaced by one "<name>市": the text returned holds the
\* name once for that run.
C15_MunicipalityOnce ==
    CleanedOnce =>
        \A m \in 1..Len(Municipalities) :
            OneRun(pure.arg, Municipalities[m]) =>
                /\ Occurrences(pure.out, Municipalities[m]) = 1
                /\ Occurrences(pure.out, Municipalities[m] \o <<"shi4">>) = 1

Extracted == pure.op = "_extract_contact_info"

\* t is an 11-digit mobile number: first digit 1, second digit 3 to 9
IsMobile(t) ==
    /\ Len(t) = 11
    /\ t[1] = "1"
    /\ t[2] \in {"3", "4", "5", "6", "7", "8", "9"}
    /\ \A k \in 3..11 : t[k] \in Digits

\* the names of the claim: a listed surname and an honorific, or two or three
\* characters that start with a listed surname
ClaimedNames ==
    {ZhangXiansheng, <<"li3", "nv3", "shi4b">>, <<"zhang1", "san1">>,
     <<"wang2", "xiao3", "ming2">>}

\* C16: a name directly followed by a phone number and then by more text is
\* extracted with that number: extract("张先生13812345678送货") returns the
\* phone "13812345678" and the name "张先生".
C16_NameBeforePhone ==
    Extracted =>
        \A n \in ClaimedNames, p \in {Phone138, Phone139} :
            pure.arg = n \o p \o SongHuo => pure.out = <<n, p>>

\* C17: the phone returned is empty or the leftmost mobile number of the
\* text; the name returned is empty or starts with a listed surname and holds
\* no address keyword; extract("北京大学13900001111") returns no name and the
\* phone "13900001111".
C17_ContactInvariant ==
    Extracted =>
        /\ \/ pure.out[2] = <<>>
           \/ \E i \in 1..Len(pure.arg) :
                /\ i + 10 <= Len(pure.arg)
                /\ pure.out[2] = SubSeq(pure.arg, i, i + 10)
                /\ IsMobile(pure.out[2])
                /\ \A j \in 1..(i - 1) :
                      ~(j + 10 <= Len(pure.arg) /\ IsMobile(SubSeq(pure.arg, j, j + 10)))
        /\ \/ pure.out[1] = <<>>
           \/ /\ pure.out[1][1] \in common_surnames
              /\ \A k \in invalid_keywords : ~Contains(pure.out[1], k)
        /\ pure.arg = BeijingDaxue \o Phone139 => pure.out = <<<<>>, Phone139>>

\* a name and the first of two phone numbers are extracted
C17_Witness ==
    /\ Extracted
    /\ pure.out[1] # <<>>
    /\ pure.out[2] = Phone138
    /\ Occurrences(pure.arg, Phone139) = 1

Decomposed == pure.op = "_extract_building_info"

\* the special-place patterns that match the address, by their place in the list
SpecialHits(address) == {k \in 1..Len(special_keywords) : SpecialFound(address, k)}

\* a known region: a component that holds a text
Known(components, key) == Truthy(components[key]) /\ IsStr(components[key])

Without(s, i, n) == SubSeq(s, 1, i - 1) \o SubSeq(s, i + n, Len(s))

\* the first match of the unit pattern taken out of the text: <<unit, rest>>
UnitTaken(s) ==
    Let(Search([i \in 1..Len(s) |-> UnitLen(s, i)]), LAMBDA at :
        IF at = 0 THEN <<<<>>, s>>
        ELSE <<SubSeq(s, at, at + UnitLen(s, at) - 1), Without(s, at, UnitLen(s, at))>>)

\* the text without the room matched at index i and without the 室 that
\* follows the room
RoomDropped(s, i, n) ==
    IF At(s, i + n, <<"shi4c">>) THEN Without(s, i, n + 1) ELSE Without(s, i, n)

\* the match of the first room pattern that has one taken out of the text,
\* and the 室 behind it: <<room, rest>>
RoomTaken(s) ==
    Let([k \in 1..3 |-> Search([i \in 1..Len(s) |-> RoomLen(s, i, k)])], LAMBDA at :
        IF \A k \in 1..3 : at[k] = 0 THEN <<<<>>, s>>
        ELSE Let(Min({k \in 1..3 : at[k] # 0}), LAMBDA k :
                 <<SubSeq(s, at[k], at[k] + RoomLen(s, at[k], k) - 1),
                   RoomDropped(s, at[k], RoomLen(s, at[k], k))>>))

\* the decomposition of the claim: unit, then room, the rest is the building
Decomposition(residual) ==
    Let(UnitTaken(residual), LAMBDA u :
    Let(RoomTaken(u[2]), LAMBDA r :
        [building |-> Strip(CollapseSpaces(r[2])), unit |-> u[1], room |-> r[1]]))

\* C19: a residual text without a special place gives the unit as the first
\* match of digits and 单元, the room as the match of the first room pattern
\* that has one (the matched number and a trailing 室 are removed), and what
\* remains, trimmed and with its whitespace collapsed, as the building;
\* "3号楼2单元501室" gives unit "2单元", room "501", building "3号楼".
C19_Decomposition ==
    (Decomposed /\ pure.out.ok /\ SpecialHits(pure.arg) = {}) =>
        pure.out.val = Decomposition(pure.remaining_address)

BestMatched == pure.op = "_find_best_poi_match"

\* the value v of a candidate is met in the address
Met(poi, key, address) ==
    key \in DOMAIN poi /\ IsStr(poi[key]) /\ Contains(address, poi[key])

\* the score as documented: +5 name in address and +3 more when it equals the
\* address, +3 candidate address in address or else +2 address in candidate
\* address, +2 adname, +1 business area, +1 any type tag, +1 alias, +2 for
\* each child met
Documented(poi, address) ==
      (IF Met(poi, "name", address) THEN 5 ELSE 0)
    + (IF Met(poi, "name", address) /\ poi.name = address THEN 3 ELSE 0)
    + (IF Met(poi, "address", address) /\ poi.address # <<>> THEN 3
       ELSE IF "address" \in DOMAIN poi /\ IsStr(poi.address) /\ poi.address # <<>>
               /\ Contains(poi.address, address) THEN 2 ELSE 0)
    + (IF Met(poi, "adname", address) THEN 2 ELSE 0)
    + (IF "business" \in DOMAIN poi /\ poi.business.t = "dict"
          /\ Met(poi.business.d, "business_area", address)
          /\ poi.business.d.business_area # <<>> THEN 1 ELSE 0)
    + (IF "type" \in DOMAIN poi /\ IsStr(poi.type) /\ poi.type # <<>>
          /\ \E k \in 1..Len(SplitTags(poi.type)) :
                Contains(address, SplitTags(poi.type)[k]) THEN 1 ELSE 0)
    + (IF Met(poi, "alias", address) /\ poi.alias # <<>> THEN 1 ELSE 0)
    + (IF "children" \in DOMAIN poi
       THEN 2 * Cardinality({k \in 1..Len(poi.children) :
                                Met(poi.children[k], "name", address)})
       ELSE 0)

\* C20: for a list of candidates that is not empty the match returned is the
\* first candidate of the highest documented score; for the empty list no
\* match is returned.
C20_BestMatch ==
    BestMatched =>
        IF pure.pois = <<>> THEN pure.out = Returned(<<>>)
        ELSE pure.out =
                Returned(<<pure.pois[FirstMax([i \in 1..Len(pure.pois) |->
                                Documented(pure.pois[i], pure.arg)])]>>)

----------------------------------------------------------------------------
(* Claims on the lookups that keep what they were answered, checked under *)
(* SpecCached                                                             *)

\* the query that the step makes
Made == [kind |-> asked'.kind, args |-> asked'.args]

\* the step makes a query (the only other step lets midnight pass)
QueryStep == today' = today

\* the step makes a query that was made before
Repeated == QueryStep /\ Made \in DOMAIN asked.first

\* the step returns what the query returned when first made, and sends nothing
\* and counts nothing
SameAnswer ==
    /\ ret' = Returned(asked.first[Made].val)
    /\ wire' = wire
    /\ _quota_counter' = _quota_counter
    /\ last_request_time' = last_request_time

Keeps(cache) == \A k \in DOMAIN cache : k \in DOMAIN cache' /\ cache'[k] = cache[k]

\* no entry of a cache is dropped or given another value
EntriesKept ==
    /\ Keeps(_tips_cache)
    /\ Keeps(_poi_cache)
    /\ Keeps(_district_cache)
    /\ _current_city # Unset => _current_city' = _current_city

----------------------------------------------------------------------------
(* Claims on callers that share the instance, checked under SpecThreads *)

\* C12: with several callers on one instance, whenever no call is inside the
\* quota check and the date was rolled over to today, the counter of every
\* path is the number of calls to it that passed the quota check today.
C12_CountsAccurate ==
    (\A t \in Threads : threads[t].pc \in {"idle", "rate_read", "rate_sleep",
                                          "rate_stamp", "request"})
        /\ _quota_date = today
    => \A p \in Paths : _quota_counter[p] = passed[p]

\* C13: with several callers on one instance, no two callers send requests
\* less than MinInterval apart.
C13_ConcurrentSpacing ==
    \A t, u \in Threads :
        (t # u /\ threads[t].sent_at >= 0 /\ threads[u].sent_at >= 0)
        => \/ threads[t].sent_at - threads[u].sent_at >= MinInterval
           \/ threads[u].sent_at - threads[t].sent_at >= MinInterval

----------------------------------------------------------------------------
(* Further claims about the gateway, checked under SpecGateway *)

\* the step is a call of the gateway (the only other step lets midnight pass)
GatewayStep == today' = today

\* C26: every call of the gateway adds exactly one to the count of its path,
\* whether it is then refused for quota or fails downstream, and changes no
\* other count; the count keeps growing past the limit.
C26_ChargedOnAttempt ==
    [][GatewayStep =>
        \A p \in Paths :
            _quota_counter'[p] = IF p = call'.path THEN Count(p) + 1 ELSE Count(p)]_vars

\* a call refused for quota has been counted past the limit
C26_Witness ==
    /\ Called
    /\ ~call.admitted
    /\ call.count_after = QuotaOf(call.path) + OverQuota + 1
    /\ _quota_counter[call.path] = call.count_after

\* C29: a call refused by the quota check sends nothing, leaves
\* last_request_time and request_count alone and takes no time.
C29_RefusedIsFree ==
    [][(GatewayStep /\ ~call'.admitted) =>
        /\ wire' = wire
        /\ last_request_time' = last_request_time
        /\ request_count' = request_count
        /\ now' = now]_vars

\* a call to the search path has been refused less than MinInterval after a request
C29_Witness ==
    /\ Called
    /\ ~call.admitted
    /\ call.path = PlaceTextV3
    /\ now - last_request_time < MinInterval
    /\ request_count = QuotaOf(PlaceTextV3)

----------------------------------------------------------------------------
(* Claims about the weather of a record, checked under Spec *)

WeatherPcs == {"coordinate_weather", "district_weather", "geocode_weather"}

\* the step is the weather lookup of a parse, after which the parse returns
WeatherReturns == parse.pc \in WeatherPcs /\ parse'.pc = "done"

\* the last lookup of the parse
LastLookup == parse.log[Len(parse.log)]

\* the lookups the parse made, by kind
Looked(kind) == \E i \in 1..Len(parse.log) : parse.log[i].kind = kind

C25_WeatherNotEmpty ==
    (Done /\ ret.ok /\ ret.val.weather # NoneC) =>
        \/ ret.val.weather.current # NoneC
        \/ ret.val.weather.forecast # <<>>

\* C30: a record returned by the coordinate step has no weather, and when the
\* response carried an adcode the lookup was made and counted all the same.
C30_CoordinateWeatherDropped ==
    [][/\ (parse.pc = "coordinate_weather" /\ parse'.pc = "done") =>
            /\ ret'.ok
            /\ ret'.val.weather = NoneC
            /\ _quota_counter'[WeatherPath] = Count(WeatherPath) + 1
       /\ (/\ \/ parse.pc = "regeo"
              \/ parse.pc = "clean" /\ parse.frame.after = "coordinates"
           /\ parse'.pc = "done") =>
            ret'.val.weather = NoneC]_vars

\* the coordinate step returned after a weather lookup that brought an observation
C30_Witness ==
    /\ Done
    /\ Looked("regeo")
    /\ ~Looked("district")
    /\ LastLookup.kind = "weather"
    /\ LastLookup.val.truthy
    /\ ret.ok
    /\ ret.val.province = ShanxiSheng
    /\ ret.val.weather = NoneC
    /\ _quota_counter[WeatherPath] >= 1

----------------------------------------------------------------------------
(* Claims about what the strategies put into a record, checked under Spec *)

\* the record was returned by the coordinate step or by the forward geocode
FromCoordinatesOrGeocode == Looked("geo") \/ (Looked("regeo") /\ ~Looked("district"))

\* C27: in a record returned by the coordinate step or by the forward-geocode
\* step, a phone that was extracted does not occur in building, nor does a
\* name that was extracted.
C27_BuildingWithoutContact ==
    (Done /\ ret.ok /\ FromCoordinatesOrGeocode /\ IsStr(ret.val.building)) =>
        /\ (IsStr(ret.val.phone) /\ ret.val.phone # <<>>) =>
                ~Contains(ret.val.building, ret.val.phone)
        /\ (IsStr(ret.val.name) /\ ret.val.name # <<>>) =>
                ~Contains(ret.val.building, ret.val.name)

Strategies == {"regeo", "district", "geo"}

\* the record holds province, district and the city of the fields d of a
\* response, the city being the province where the response has none
AdminFrom(d) ==
    /\ ret.val.province = Get(d, "province", <<>>)
    /\ ret.val.district = Get(d, "district", <<>>)
    /\ ret.val.city = IF Get(d, "city", <<>>) \in {<<>>, NoneVal, EmptyList}
                      THEN Get(d, "province", <<>>) ELSE Get(d, "city", <<>>)

\* the record was made from the answer of lookup i alone
MadeFrom(i) ==
    LET val == parse.log[i].val
    IN  CASE Kind(i) = "regeo" ->
                /\ RegeoSucceeded(i)
                /\ LET ac == val.d.regeocode.d.addressComponent.d
                   IN  AdminFrom(ac) /\ ret.val.street = Get(ac, "township", <<>>)
          [] Kind(i) = "district" ->
                /\ Matched(i)
                /\ ret.val.street = <<>>
                /\ ret.val.province = val.d.province
                /\ ret.val.district = val.d.district
                /\ ret.val.city = IF val.d.city \in {<<>>, NoneVal, EmptyList}
                                  THEN val.d.province ELSE val.d.city
          [] Kind(i) = "geo" ->
                /\ val.t = "dict" /\ GetC(val.d, "geocodes").truthy
                /\ LET geocode == val.d.geocodes.items[1].d
                   IN  /\ AdminFrom(geocode)
                       /\ \/ ret.val.street = <<>>
                          \/ Contains(Get(geocode, "formatted_address", <<>>),
                                      ret.val.street)

\* C28: a record that is not the empty one has its province, city, district
\* and street from the answer of the last strategy the parse tried, which
\* succeeded; its city is that answer's city, or its province when the answer
\* has no city.
C28_DiscardOnFallback ==
    (Done /\ ret.ok /\ ret.val # _empty_components) =>
        /\ \E i \in Events : Kind(i) \in Strategies
        /\ MadeFrom(Max({i \in Events : Kind(i) \in Strategies}))

\* the reverse geocode and the district lookup found nothing and the forward
\* geocode answered with a province and no city
C28_Witness ==
    /\ Done
    /\ \E i, j, k \in Events :
          /\ i < j /\ j < k
          /\ Kind(i) = "regeo" /\ ~RegeoSucceeded(i)
          /\ Kind(j) = "district" /\ ~Matched(j)
          /\ Kind(k) = "geo"
    /\ ret.ok
    /\ ret.val.province = BareFields.province
    /\ ret.val.city = BareFields.province

----------------------------------------------------------------------------
(* Claims about the county names of _clean_address_string, checked under Spec *)

\* _clean_address_string has just returned to _parse_address_by_text, and the
\* last county name it looked up was resolved
CountyResolved ==
    /\ parse.pc = "district"
    /\ parse.log # <<>>
    /\ LastLookup.kind = "county"
    /\ LastLookup.val.truthy

\* C23: when the county name that cleaning looked up last was resolved, the
\* text cleaning returns starts with the province and the city of the answer.
C23_CountyPrepended ==
    CountyResolved =>
        StartsWith(parse.clean_address,
                   Fmt(Get(LastLookup.val.d, "province", <<>>))
                       \o Fmt(Get(LastLookup.val.d, "city", <<>>)))

\* C24: a call of _clean_address_string leaves the daily counters, the quota
\* date, last_request_time, request_count and every cache as they were.
C24_CleanIsPure ==
    [][parse.pc = "clean" =>
        /\ _quota_counter' = _quota_counter
        /\ _quota_date' = _quota_date
        /\ last_request_time' = last_request_time
        /\ request_count' = request_count
        /\ _district_cache' = _district_cache
        /\ district_cache' = district_cache
        /\ _tips_cache' = _tips_cache
        /\ _poi_cache' = _poi_cache
        /\ _current_city' = _current_city]_vars

----------------------------------------------------------------------------
(* Claim about two parses of one text, checked under SpecSame *)

\* C22: with the provider answering every request the same way, the second
\* parse of a text on an instance returns the record the first parse
\* returned, whatever lookups were made on the instance before and between.
C22_SameTextSameRecord ==
    (provider.fixed /\ provider.returned = 2) => provider.second = provider.first

\* the second parse found its district in the cache, other lookups having
\* been made on the instance, and returned a record with a province
C22_Witness ==
    /\ provider.fixed
    /\ provider.returned = 2
    /\ DistrictFromCache
    /\ Count(DistrictPath) > 0
    /\ provider.second.ok
    /\ provider.second.val.province = ShanxiSheng
    /\ provider.second = provider.first

====
